---- MODULE Spec2Model ----
(***************************************************************************)
(* Per-repository MCP server lifecycle of kubotak-is/librarian.            *)
(*                                                                         *)
(* Registry: the Tauri commands start_repository_mcp_server,               *)
(* stop_repository_mcp_server and get_server_status over the ServerManager *)
(* map, the port probe find_available_port, the listener tasks the start   *)
(* command spawns, and the processes outside the application that bind     *)
(* ports of the same range.                                                *)
(*                                                                         *)
(* Configuration: the repository list of the frontend and the fixed port   *)
(* handleAddRepository assigns to a repository when it is registered.      *)
(*                                                                         *)
(* Option<T> values are sets with at most one element: {} is None and {x}  *)
(* is Some(x). A HashMap is a function whose DOMAIN is its key set.        *)
(***************************************************************************)
EXTENDS Integers, FiniteSets, Sequences, Bags, TLC

\* ------------------------------------------------------------- bounds
MaxTasks == 2
MaxConfigRepos == 101
MaxEvents == 2
MaxVersion == 2
MaxPending == 2

\* repository ids known to the frontend, and the frontend's concurrent invocations
Repos == {"repoA", "repoB"}
Callers == {"c1", "c2"}

\* the HTTP clients whose requests one server instance handles concurrently
Clients == {"h1", "h2"}

\* ---------------------------------------------------- program constants
PortMin == 9500
PortMax == 9599

PortRange == PortMin..PortMax

VARIABLES
    servers,      \* ServerManager: repository id -> McpServerHandle
    tasks,        \* listener tasks of the tokio runtime that have not been dropped
    lock,         \* the caller holding the RwLock's write guard ({} or {c})
    call,         \* per caller: the command invocation in progress
    ret,          \* the response the last step delivered to the frontend ({} if none)
    rival,        \* history, per caller: the port a concurrent start registered
    extAll,       \* processes outside hold every port no listener task holds
    repositories, \* frontend config: the MCP ports of the registered repositories
    agent_libraries,   \* per repository: the Vec<AgentLibrary> its server instance serves
    readers,           \* per repository: the request handlers holding a read guard on it
    handlers,          \* per HTTP client: the JSON-RPC request being handled
    disk,              \* per repository: the library on disk [ver, valid]
    subscribers,       \* bag: the callbacks subscribed to autoReloadEnabled, by what they do
    autoReloadEnabled, \* frontend store: automatic reload is switched on
    reloads,           \* bag: the reload_agent_library invocations in flight
    window,            \* history: the repositories with a matching event inside the debounce window
    notification,      \* frontend store: the notification shown last ({} if none)
    appConfig,         \* frontend store: the AppConfig (repositories, last_opened_repository)
    selectedRepository, \* frontend store: the repository selected in the sidebar ({} if none)
    toolbar,           \* the $state of the toolbar component
    awaits,            \* the frontend functions suspended at an await, with their locals
    eventListener,     \* FileWatcherAPI.eventListener: the unlisten function kept ({} if null)
    listeners          \* the 'file-change' listeners registered with the event system

rpcVars == <<readers, handlers>>
watchVars == <<disk, subscribers, autoReloadEnabled, reloads, notification, window>>
uiVars == <<selectedRepository, toolbar, awaits, eventListener, listeners>>

vars == <<servers, tasks, lock, call, ret, rival, extAll, repositories, agent_libraries,
          rpcVars, watchVars, appConfig, uiVars>>

\* ------------------------------------------------------- result values
ServerAlreadyRunning == [ok |-> TRUE, msg |-> "Server already running", port |-> {}]
McpServerStarted(p) == [ok |-> TRUE, msg |-> "MCP server started on port", port |-> {p}]
NoAvailablePorts == [ok |-> FALSE, msg |-> "No available ports in range 9500-9599", port |-> {}]
ParseError == [ok |-> FALSE, msg |-> "agent_index.yml not found", port |-> {}]
ServerStopped == [ok |-> TRUE, msg |-> "Server stopped", port |-> {}]
ServerNotFound == [ok |-> FALSE, msg |-> "Server not found", port |-> {}]
StatusList(l) == [ok |-> TRUE, msg |-> "status", port |-> {}, list |-> l]

IdleCall == [op |-> "none", id |-> {}, pc |-> "idle", port |-> {}]

\* ------------------------------------------------------------ the tasks
\* A task is [repo, port, st, abort, held]: st is spawned (not yet bound), serving
\* (bound and accepting), ended (start_mcp_server returned: the bind failed or the
\* server stopped serving) or cancelled; abort: JoinHandle::abort was called on it;
\* held: the registry entry of repo holds its JoinHandle. A task that is over and
\* that no handle refers to is dropped.
Task(id, p) == [repo |-> id, port |-> p, st |-> "spawned", abort |-> FALSE, held |-> TRUE]

Running(t) == t.st \in {"spawned", "serving"}

\* a task holds its port while it serves; a task whose abort was requested keeps
\* serving until the runtime cancels it
PortHeldByTask(p) == \E t \in tasks : t.st = "serving" /\ t.port = p

\* TcpListener::bind on p fails
PortBound(p) == extAll \/ PortHeldByTask(p)

\* the task behind the JoinHandle of a registry entry
Handle(id) == CHOOSE t \in tasks : t.held /\ t.repo = id

\* JoinHandle::is_finished
is_finished(t) == ~Running(t)

\* the listener task runs and no cancellation was requested
TaskLive(t) == Running(t) /\ ~t.abort

Collect(tk) == {t \in tk : t.held \/ Running(t)}

\* ------------------------------------------------------- port allocation
FreePorts == {p \in PortRange : ~PortBound(p)}

\* mutant: falls back to the first port of the range instead of failing
find_available_port_or_default ==
    IF FreePorts = {} THEN {PortMin}
    ELSE {CHOOSE p \in FreePorts : \A q \in FreePorts : p <= q}

\* for port in 9500..9600: the first port whose probe bind succeeds, else Err
find_available_port ==
    IF FreePorts = {} THEN {}
    ELSE {CHOOSE p \in FreePorts : \A q \in FreePorts : p <= q}

\* ------------------------------------------------------------ the parser
\* parse_agent_library_internal(path) returns Ok(library) or Err
ParseOutcomes == {"Ok", "Err"}

\* the frontend passes the path of the repository's config entry
RepoPath(id) == id

\* ------------------------------------------------------------- the lock
\* mutant: the registry is not locked, write() resolves at once
WriteLockIgnored == TRUE

\* state.write().await resolves when no other guard is held
WriteLockFree == lock = {}

\* state.read().await resolves when no write guard is held
ReadLockFree == lock = {}

\* -------------------------------------------------------- map operations
contains_key(id) == id \in DOMAIN servers

insert(id, h) == [k \in (DOMAIN servers) \cup {id} |-> IF k = id THEN h ELSE servers[k]]

\* mutant: servers.clear() instead of servers.remove(&repository_id)
remove_all(id) == [k \in {} |-> servers[k]]

remove(id) == [k \in (DOMAIN servers) \ {id} |-> servers[k]]

McpServerHandle(p, path) == [port |-> p, repository_path |-> path]

\* the Vec<ServerStatus> of get_server_status: one entry per registered server
ServerStatusList ==
    {[repository_id |-> id, port |-> servers[id].port,
      status |-> IF is_finished(Handle(id)) THEN "stopped" ELSE "running"] :
        id \in DOMAIN servers}

\* the view of one repository: running
StatusRunning(id) == \E e \in ServerStatusList : e.repository_id = id /\ e.status = "running"

\* ------------------------------------------------------------ the library
\* The library on disk of a repository is [ver, valid]: ver counts the edits of its
\* files, valid says whether agent_index.yml exists and parses. The index declares
\* its endpoints in order; exists says whether the prompt file of an endpoint is on
\* disk. Versions 0, 3, .. declare p1 and p2, versions 1, 4, .. declare both but
\* the file of p2 is missing, versions 2, 5, .. declare nothing.
Endpoints(v) ==
    CASE v % 3 = 0 -> <<[id |-> "p1", exists |-> TRUE], [id |-> "p2", exists |-> TRUE]>>
      [] v % 3 = 1 -> <<[id |-> "p1", exists |-> TRUE], [id |-> "p2", exists |-> FALSE]>>
      [] OTHER -> <<>>

\* mutant: every endpoint of the index yields a prompt
PromptFileFound_always(e) == TRUE

\* if prompt_path.exists() { ... prompts.push(Prompt { .. }) }
PromptFileFound(e) == e.exists

\* the ids of the prompts parse_agent_library pushes, in the order of the index
PromptIds(v) ==
    LET kept == SelectSeq(Endpoints(v), PromptFileFound)
    IN [i \in DOMAIN kept |-> kept[i].id]

\* Prompt { id, title, description, category, content }: the texts of version v
Prompt(pid, v) == [name |-> pid, description |-> <<pid, "description", v>>,
                   content |-> <<pid, "content", v>>]

\* Ok(AgentLibrary { name, description, prompts }): one Prompt per endpoint of the index
\* what parse_agent_library returns for each version of the library on disk
ParsedLibraries ==
    [v \in 0..MaxVersion |->
        LET ids == PromptIds(v)
        IN [name |-> "library", prompts |-> [i \in DOMAIN ids |-> Prompt(ids[i], v)]]]

AgentLibrary(v) == ParsedLibraries[v]

\* parse_agent_library(repo_path): "Ok" or "Err" for the library on disk
ParseOf(id) == IF disk[id].valid THEN "Ok" ELSE "Err"

IdleHandler == [pc |-> "idle", req |-> {}, description |-> {}]

\* ------------------------------------------------------------ the config store
\* The store appConfig holds the list of RepositoryConfig, each with an optional
\* mcp_server { port, status } ({} when absent), and last_opened_repository ({}
\* when unset). Every write goes to the backend first and then to the store, and
\* load_app_config returns what was written: the store mirrors the saved config.
DefaultPort == 9500

McpServerConfig(port, status) == [port |-> port, status |-> status]

RepositoryConfig(id, mcp_server) == [id |-> id, mcp_server |-> mcp_server]

AppConfig(repos, last) == [repositories |-> repos, last_opened_repository |-> last]

\* writable<AppConfig>({ repositories: [], .. })
DefaultConfig == AppConfig(<<>>, {})

\* both repositories are registered, their servers recorded as stopped
RegisteredConfig ==
    AppConfig(<<RepositoryConfig("repoA", {McpServerConfig(DefaultPort, "stopped")}),
                RepositoryConfig("repoB", {McpServerConfig(DefaultPort, "stopped")})>>, {})

\* nothing is selected, the toolbar shows a stopped server, no function is suspended
\* and no listener is registered
InitUi ==
    /\ selectedRepository = {}
    /\ toolbar = [currentSelectedRepository |-> {}, serverStatus |-> "stopped", serverPort |-> {}]
    /\ awaits = {}
    /\ eventListener = {}
    /\ listeners = {}

\* ---------------------------------------------------------------- Init
Init ==
    /\ servers = <<>>
    /\ tasks = {}
    /\ lock = {}
    /\ call = [c \in Callers |-> IdleCall]
    /\ ret = {}
    /\ rival = [c \in Callers |-> {}]
    /\ extAll = FALSE
    /\ repositories = {}
    /\ agent_libraries = [id \in Repos |-> <<>>]
    /\ readers = [id \in Repos |-> {}]
    /\ handlers = [h \in Clients |-> IdleHandler]
    /\ disk = [id \in Repos |-> [ver |-> 0, valid |-> TRUE]]
    /\ subscribers = EmptyBag
    /\ autoReloadEnabled = TRUE
    /\ reloads = EmptyBag
    /\ notification = {}
    /\ window = {}
    /\ appConfig = DefaultConfig
    /\ InitUi

\* history: the starts of repository id that are in flight beside caller c
Rivals(c, id) == {d \in Callers \ {c} : call[d].op = "start" /\ call[d].id = {id}}

\* history: the note of a caller is kept until the step after its command returned
Settle == [d \in Callers |-> IF call[d].pc = "idle" THEN {} ELSE rival[d]]

\* history: caller c has registered port p for id or (p = {}) removed the entry of id
Note(c, id, p) == [d \in Callers |-> IF d \in Rivals(c, id) THEN p ELSE Settle[d]]

InFlight(c) == call[c].pc # "idle"

\* the frontend invokes a command: invoke('start_repository_mcp_server', ...)
Invoke(c, op, id) ==
    /\ call[c].pc = "idle"
    /\ call' = [call EXCEPT ![c] = [IdleCall EXCEPT !.op = op, !.id = id, !.pc = "lock"]]
    /\ ret' = {}
    /\ UNCHANGED <<servers, tasks, lock, extAll, repositories>>
    /\ UNCHANGED <<agent_libraries, rpcVars, watchVars, appConfig, uiVars>>
    /\ rival' = Settle

InvokeStart(c, id) == Invoke(c, "start", {id})
InvokeStop(c, id) == Invoke(c, "stop", {id})

IdOf(c) == CHOOSE id \in call[c].id : TRUE

\* the command of caller c returns res to the frontend
Response(c, res) == {[caller |-> c, op |-> call[c].op, id |-> call[c].id, result |-> res]}

Finish(c) == [call EXCEPT ![c] = IdleCall]

\* ------------------------------------------ start_repository_mcp_server
\* mutant: the already-running check is missing
start_lock_unchecked(c) ==
    /\ call[c].op = "start" /\ call[c].pc = "lock"
    /\ WriteLockFree
    /\ call' = [call EXCEPT ![c].pc = "find_port"]
    /\ ret' = {}
    /\ lock' = {c}
    /\ UNCHANGED <<servers, tasks, extAll, repositories>>
    /\ UNCHANGED <<agent_libraries, rpcVars, watchVars, appConfig, uiVars>>
    /\ rival' = Settle

\* mutant: an entry whose task has finished does not count as running
start_lock_restarts_finished(c) ==
    /\ call[c].op = "start" /\ call[c].pc = "lock"
    /\ WriteLockFree
    /\ IF contains_key(IdOf(c)) /\ ~is_finished(Handle(IdOf(c)))
       THEN /\ call' = Finish(c)
            /\ ret' = Response(c, ServerAlreadyRunning)
            /\ lock' = lock
       ELSE /\ call' = [call EXCEPT ![c].pc = "find_port"]
            /\ ret' = {}
            /\ lock' = {c}
    /\ rival' = Settle
    /\ UNCHANGED <<servers, tasks, extAll, repositories>>
    /\ UNCHANGED <<agent_libraries, rpcVars, watchVars, appConfig, uiVars>>

\* let mut servers = state.write().await; if servers.contains_key(..) return Ok
start_lock(c) ==
    /\ call[c].op = "start" /\ call[c].pc = "lock"
    /\ WriteLockFree
    /\ IF contains_key(IdOf(c))
       THEN /\ call' = Finish(c)
            /\ ret' = Response(c, ServerAlreadyRunning)
            /\ lock' = lock
            /\ rival' = Settle
       ELSE /\ call' = [call EXCEPT ![c].pc = "find_port"]
            /\ ret' = {}
            /\ lock' = {c}
            /\ rival' = Settle
    /\ UNCHANGED <<servers, tasks, extAll, repositories>>
    /\ UNCHANGED <<agent_libraries, rpcVars, watchVars, appConfig, uiVars>>

\* let port = find_available_port().await?;
start_find_port(c) ==
    /\ call[c].op = "start" /\ call[c].pc = "find_port"
    /\ IF find_available_port = {}
       THEN /\ call' = Finish(c)
            /\ ret' = Response(c, NoAvailablePorts)
            /\ lock' = lock \ {c}
            /\ rival' = Settle
       ELSE /\ call' = [call EXCEPT ![c].pc = "parse", ![c].port = find_available_port]
            /\ ret' = {}
            /\ lock' = lock
            /\ rival' = Settle
    /\ UNCHANGED <<servers, tasks, extAll, repositories>>
    /\ UNCHANGED <<agent_libraries, rpcVars, watchVars, appConfig, uiVars>>

\* mutant: the server is spawned and registered before the library is parsed
start_spawn_then_parse(c, parsed) ==
    /\ call[c].op = "start" /\ call[c].pc = "parse"
    /\ LET id == IdOf(c)
           p == CHOOSE q \in call[c].port : TRUE
       IN /\ Cardinality(tasks) < MaxTasks
          /\ servers' = insert(id, McpServerHandle(p, RepoPath(id)))
          /\ tasks' = Collect({[t EXCEPT !.held = t.held /\ t.repo # id] : t \in tasks}
                              \cup {Task(id, p)})
          /\ ret' = Response(c, IF parsed = "Ok" THEN McpServerStarted(p) ELSE ParseError)
          /\ rival' = Note(c, id, {p})
          /\ agent_libraries' = [agent_libraries EXCEPT ![id] = <<AgentLibrary(disk[id].ver)>>]
    /\ call' = Finish(c)
    /\ lock' = lock \ {c}
    /\ UNCHANGED <<extAll, repositories>>
    /\ UNCHANGED <<rpcVars, watchVars, appConfig, uiVars>>

\* parse_agent_library_internal(repo_path).await?; tokio::spawn(start_mcp_server(port,
\* agent_library)); servers.insert(repository_id, McpServerHandle {..}); Ok
start_parse_spawn(c, parsed) ==
    /\ call[c].op = "start" /\ call[c].pc = "parse"
    /\ LET id == IdOf(c)
           p == CHOOSE q \in call[c].port : TRUE
       IN IF parsed = "Ok"
          THEN /\ Cardinality(tasks) < MaxTasks
               /\ servers' = insert(id, McpServerHandle(p, RepoPath(id)))
               /\ tasks' = Collect({[t EXCEPT !.held = t.held /\ t.repo # id] : t \in tasks}
                                   \cup {Task(id, p)})
               /\ ret' = Response(c, McpServerStarted(p))
               /\ rival' = Note(c, id, {p})
               /\ agent_libraries' = [agent_libraries EXCEPT ![id] = <<AgentLibrary(disk[id].ver)>>]
          ELSE /\ ret' = Response(c, ParseError)
               /\ rival' = Settle
               /\ UNCHANGED <<servers, tasks, agent_libraries>>
    /\ call' = Finish(c)
    /\ lock' = lock \ {c}
    /\ UNCHANGED <<extAll, repositories>>
    /\ UNCHANGED <<rpcVars, watchVars, appConfig, uiVars>>

\* ------------------------------------------- stop_repository_mcp_server
\* mutant: servers.get instead of servers.remove, the entry stays in the map
stop_without_remove(c) ==
    /\ call[c].op = "stop" /\ call[c].pc = "lock"
    /\ WriteLockFree
    /\ LET id == IdOf(c) IN
       IF contains_key(id)
       THEN /\ tasks' = {IF t = Handle(id) THEN [t EXCEPT !.abort = Running(t)] ELSE t :
                            t \in tasks}
            /\ ret' = Response(c, ServerStopped)
            /\ rival' = Note(c, id, {})
       ELSE /\ ret' = Response(c, ServerNotFound)
            /\ rival' = Settle
            /\ UNCHANGED tasks
    /\ call' = Finish(c)
    /\ UNCHANGED <<servers, lock, extAll, repositories>>
    /\ UNCHANGED <<agent_libraries, rpcVars, watchVars, appConfig, uiVars>>

\* mutant: stop awaits the end of the listener task instead of aborting it
stop_awaiting_listener(c) ==
    /\ call[c].op = "stop" /\ call[c].pc = "lock"
    /\ WriteLockFree
    /\ LET id == IdOf(c) IN
       IF contains_key(id)
       THEN /\ is_finished(Handle(id))
            /\ servers' = remove(id)
            /\ tasks' = Collect({IF t = Handle(id) THEN [t EXCEPT !.held = FALSE] ELSE t :
                                    t \in tasks})
            /\ ret' = Response(c, ServerStopped)
            /\ rival' = Note(c, id, {})
            /\ agent_libraries' = [agent_libraries EXCEPT ![id] = <<>>]
       ELSE /\ ret' = Response(c, ServerNotFound)
            /\ rival' = Settle
            /\ UNCHANGED <<servers, tasks, agent_libraries>>
    /\ call' = Finish(c)
    /\ UNCHANGED <<lock, extAll, repositories>>
    /\ UNCHANGED <<rpcVars, watchVars, appConfig, uiVars>>

\* servers.remove(&repository_id): Some(server) => server.handle.abort(), Ok; None => Err
stop_repository_mcp_server(c) ==
    /\ call[c].op = "stop" /\ call[c].pc = "lock"
    /\ WriteLockFree
    /\ LET id == IdOf(c) IN
       IF contains_key(id)
       THEN /\ servers' = remove(id)
            /\ tasks' = Collect({IF t = Handle(id)
                                 THEN [t EXCEPT !.abort = Running(t), !.held = FALSE]
                                 ELSE t : t \in tasks})
            /\ ret' = Response(c, ServerStopped)
            /\ rival' = Note(c, id, {})
            /\ agent_libraries' = [agent_libraries EXCEPT ![id] = <<>>]
       ELSE /\ ret' = Response(c, ServerNotFound)
            /\ rival' = Settle
            /\ UNCHANGED <<servers, tasks, agent_libraries>>
    /\ call' = Finish(c)
    /\ UNCHANGED <<lock, extAll, repositories>>
    /\ UNCHANGED <<rpcVars, watchVars, appConfig, uiVars>>

\* -------------------------------------------------- get_server_status
\* mutant: the command drops the entries whose task has finished
get_server_status_reaping(c) ==
    /\ call[c].pc = "idle"
    /\ ReadLockFree
    /\ ret' = {[caller |-> c, op |-> "status", id |-> {}, result |-> StatusList(ServerStatusList)]}
    /\ servers' = [k \in {id \in DOMAIN servers : ~is_finished(Handle(id))} |-> servers[k]]
    /\ UNCHANGED <<tasks, lock, call, extAll, repositories>>
    /\ UNCHANGED <<agent_libraries, rpcVars, watchVars, appConfig, uiVars>>
    /\ rival' = Settle

\* let servers = state.read().await; the list is built under the read guard. The
\* command changes nothing, so its wait for the guard is folded into the one step.
get_server_status(c) ==
    /\ call[c].pc = "idle"
    /\ ReadLockFree
    /\ ret' = {[caller |-> c, op |-> "status", id |-> {}, result |-> StatusList(ServerStatusList)]}
    /\ UNCHANGED <<servers, tasks, lock, call, extAll, repositories>>
    /\ UNCHANGED <<agent_libraries, rpcVars, watchVars, appConfig, uiVars>>
    /\ rival' = Settle

\* ------------------------------------------------------ listener tasks
Replace(t, u) == Collect((tasks \ {t}) \cup {u})

\* start_mcp_server binds 127.0.0.1:port; a failed bind ends the task
task_bind(t) ==
    /\ t.st = "spawned"
    /\ tasks' = Replace(t, [t EXCEPT !.st = IF PortBound(t.port) THEN "ended" ELSE "serving"])
    /\ ret' = {}
    /\ UNCHANGED <<servers, lock, call, extAll, repositories>>
    /\ UNCHANGED <<agent_libraries, rpcVars, watchVars, appConfig, uiVars>>
    /\ rival' = Settle

\* the listener task terminates unexpectedly (axum::serve returns)
task_crash(t) ==
    /\ t.st = "serving"
    /\ tasks' = Replace(t, [t EXCEPT !.st = "ended"])
    /\ ret' = {}
    /\ UNCHANGED <<servers, lock, call, extAll, repositories>>
    /\ UNCHANGED <<agent_libraries, rpcVars, watchVars, appConfig, uiVars>>
    /\ rival' = Settle

\* the runtime cancels a task whose abort was requested, at its next yield point
task_cancel(t) ==
    /\ t.abort /\ Running(t)
    /\ tasks' = Replace(t, [t EXCEPT !.st = "cancelled"])
    /\ ret' = {}
    /\ UNCHANGED <<servers, lock, call, extAll, repositories>>
    /\ UNCHANGED <<agent_libraries, rpcVars, watchVars, appConfig, uiVars>>
    /\ rival' = Settle

\* ------------------------------------------------------- environment
\* other processes take, and later give back, every port no listener task holds
ExternalExhaust ==
    /\ extAll' = ~extAll
    /\ ret' = {}
    /\ UNCHANGED <<servers, tasks, lock, call, repositories>>
    /\ UNCHANGED <<agent_libraries, rpcVars, watchVars, appConfig, uiVars>>
    /\ rival' = Settle

Next ==
    \/ \E c \in Callers, id \in Repos : InvokeStart(c, id)
    \/ \E c \in Callers, id \in Repos : InvokeStop(c, id)
    \/ \E c \in Callers : start_lock(c)
    \/ \E c \in Callers : start_find_port(c)
    \/ \E c \in Callers, parsed \in ParseOutcomes : start_parse_spawn(c, parsed)
    \/ \E c \in Callers : stop_repository_mcp_server(c)
    \/ \E c \in Callers : get_server_status(c)
    \/ \E t \in tasks : task_bind(t)
    \/ \E t \in tasks : task_crash(t)
    \/ \E t \in tasks : task_cancel(t)
    \/ ExternalExhaust

Spec == Init /\ [][Next]_vars

\* ==================================================================
\* Frontend configuration: registering and removing repositories
\* ==================================================================
\* config.repositories.filter((r) => r.mcp_server?.port).map((r) => r.mcp_server!.port)
existingPorts == repositories

\* let port = 9500; while (existingPorts.includes(port)) { port++; }
RECURSIVE ScanPort(_)
ScanPort(port) == IF port \in existingPorts THEN ScanPort(port + 1) ELSE port

\* what handleAddRepository resolves to, or the error it throws
AddResult(p) == [caller |-> "ui", op |-> "add", id |-> {}, result |-> [ok |-> TRUE, msg |-> "added", port |-> p]]
AddCancelled == [caller |-> "ui", op |-> "add", id |-> {}, result |-> [ok |-> TRUE, msg |-> "cancelled", port |-> {}]]
AddError == [caller |-> "ui", op |-> "add", id |-> {}, result |-> [ok |-> FALSE, msg |-> ".agent_library not found", port |-> {}]]
Removed == [caller |-> "ui", op |-> "remove", id |-> {}, result |-> [ok |-> TRUE, msg |-> "removed", port |-> {}]]

\* the dialog returns a path or null; validateAgentLibrary answers for the path; the
\* new repository gets the first port from 9500 on that no registered one has
handleAddRepository(selectedPath, agentLibraryExists) ==
    /\ IF ~selectedPath
       THEN /\ ret' = {AddCancelled}
            /\ repositories' = repositories
       ELSE IF ~agentLibraryExists
       THEN /\ ret' = {AddError}
            /\ repositories' = repositories
       ELSE /\ Cardinality(repositories) < MaxConfigRepos
            /\ ret' = {AddResult({ScanPort(PortMin)})}
            /\ repositories' = repositories \cup {ScanPort(PortMin)}
    /\ UNCHANGED <<servers, tasks, lock, call, rival, extAll>>
    /\ UNCHANGED <<agent_libraries, rpcVars, watchVars, appConfig, uiVars>>

\* the repository the user removes here: the one on the highest port
RemovalChoices == {p \in repositories : \A q \in repositories : q <= p}

\* ConfigAPI.removeRepository: repositories.filter((r) => r.id !== repositoryId)
removeRepository(p) ==
    /\ p \in repositories
    /\ repositories' = repositories \ {p}
    /\ ret' = {Removed}
    /\ UNCHANGED <<servers, tasks, lock, call, rival, extAll>>
    /\ UNCHANGED <<agent_libraries, rpcVars, watchVars, appConfig, uiVars>>

NextConfig ==
    \/ \E selectedPath \in BOOLEAN, agentLibraryExists \in BOOLEAN :
          handleAddRepository(selectedPath, agentLibraryExists)
    \/ \E p \in RemovalChoices : removeRepository(p)

SpecConfig == Init /\ [][NextConfig]_vars

\* ==================================================================
\* File watcher of the frontend and the reload command
\* ==================================================================
\* A file path is the sequence of its pieces; the pieces are chosen so that every
\* pattern the code searches for is a run of whole pieces ("notes.mdx" is
\* <<"notes", ".md", "x">>).
AgentLibraryDir == <<"/", ".agent_library">>

RepoRoot(id) == <<"/", id>>

FilePaths(id) ==
    {RepoRoot(id) \o AgentLibraryDir \o <<"/", "agent_index", ".yml">>,
     RepoRoot(id) \o AgentLibraryDir \o <<"/", "prompt", ".md">>,
     RepoRoot(id) \o AgentLibraryDir \o <<"/", "PROMPT", ".MD">>,
     RepoRoot(id) \o AgentLibraryDir \o <<"/", "notes", ".md", "x">>,
     RepoRoot(id) \o AgentLibraryDir \o <<"/", "data", ".json">>,
     RepoRoot(id) \o <<"/", "README", ".md">>,
     RepoRoot(id) \o <<"/", "src", "/", "main", ".ts">>}

\* FileChangeEvent { repository_id, file_path, change_type, timestamp }
FileChangeEvent(id, path) == [repository_id |-> id, file_path |-> path]

\* String.prototype.toLowerCase, piece by piece
toLowerCase(path) ==
    [i \in DOMAIN path |->
        CASE path[i] = ".MD" -> ".md"
          [] path[i] = "PROMPT" -> "prompt"
          [] path[i] = "README" -> "readme"
          [] OTHER -> path[i]]

\* the positions at which pattern occurs in path
Occurrences(path, pattern) ==
    {i \in 1..(Len(path) - Len(pattern) + 1) : SubSeq(path, i, i + Len(pattern) - 1) = pattern}

\* String.prototype.includes
includes(path, pattern) == Occurrences(path, pattern) # {}

importantFiles == {<<"agent_index", ".yml">>, <<"agent_index", ".yaml">>, <<".md">>}

\* importantFiles.some((pattern) => file_path.toLowerCase().includes(pattern.toLowerCase()))
shouldAutoReload(event) ==
    \E pattern \in importantFiles :
        includes(toLowerCase(event.file_path), toLowerCase(pattern))

\* event.payload.file_path.split('/.agent_library')[0]
repositoryPathOf(path) ==
    IF includes(path, AgentLibraryDir)
    THEN LET i == CHOOSE j \in Occurrences(path, AgentLibraryDir) :
                      \A k \in Occurrences(path, AgentLibraryDir) : j <= k
         IN SubSeq(path, 1, i - 1)
    ELSE path

\* the arguments of reloadAgentLibrary(repository_id, repositoryPath)
ReloadCall(event) ==
    [repositoryId |-> event.repository_id, repositoryPath |-> repositoryPathOf(event.file_path)]

\* the callback subscribed for an event reloads with these arguments whenever it is
\* called with enabled = true; {} for an event shouldAutoReload rejects
Subscription(event) == IF shouldAutoReload(event) THEN {ReloadCall(event)} ELSE {}

\* the callbacks that reload when called with true, as a bag of their reload calls
ReloadingSubscribers ==
    LET calls == {x \in BagToSet(subscribers) : x # {}}
    IN [r \in UNION calls |-> CopiesIn({r}, subscribers)]

Info(id) == [type |-> "info", repositoryId |-> id]
Success(id) == [type |-> "success", repositoryId |-> id]
Error(id) == [type |-> "error", repositoryId |-> id]

\* ------------------------------------------------ the 'file-change' listener
\* console.log('File change detected:', event.payload)
Logged(event) ==
    {[caller |-> "watcher", op |-> "file-change", id |-> {event.repository_id}, result |-> event]}

\* mutant: the listener subscribes the callback but does not call it
file_change_silent(event) ==
    /\ BagCardinality(subscribers) < MaxEvents
    /\ subscribers' = subscribers (+) SetToBag({Subscription(event)})
    /\ reloads' = reloads
    /\ notification' = IF shouldAutoReload(event) THEN {Info(event.repository_id)} ELSE notification
    /\ window' = IF shouldAutoReload(event) THEN window \cup {event.repository_id} ELSE window
    /\ ret' = Logged(event)
    /\ rival' = Settle
    /\ UNCHANGED <<servers, tasks, lock, call, extAll, repositories>>
    /\ UNCHANGED <<agent_libraries, rpcVars, disk, autoReloadEnabled, appConfig, uiVars>>

\* mutant: the listener restarts the listener task of a server that has stopped serving
file_change_restarting(event) ==
    /\ BagCardinality(subscribers) < MaxEvents
    /\ subscribers' = subscribers (+) SetToBag({Subscription(event)})
    /\ IF autoReloadEnabled /\ shouldAutoReload(event)
       THEN /\ BagCardinality(reloads) < MaxPending
            /\ reloads' = reloads (+) SetToBag({ReloadCall(event)})
       ELSE reloads' = reloads
    /\ notification' = IF shouldAutoReload(event) THEN {Info(event.repository_id)} ELSE notification
    /\ window' = IF shouldAutoReload(event) THEN window \cup {event.repository_id} ELSE window
    /\ ret' = Logged(event)
    /\ rival' = Settle
    /\ tasks' = IF contains_key(event.repository_id) /\ is_finished(Handle(event.repository_id))
                THEN Replace(Handle(event.repository_id),
                             [Handle(event.repository_id) EXCEPT !.st = "spawned"])
                ELSE tasks
    /\ UNCHANGED <<servers, lock, call, extAll, repositories>>
    /\ UNCHANGED <<agent_libraries, rpcVars, disk, autoReloadEnabled, appConfig, uiVars>>

\* listen('file-change', (event) => { ... }): the stores are updated, a callback is
\* subscribed to autoReloadEnabled and called at once with the current value, and
\* the change notification is shown. The subscription is never released.
file_change(event) ==
    /\ BagCardinality(subscribers) < MaxEvents
    /\ subscribers' = subscribers (+) SetToBag({Subscription(event)})
    /\ IF autoReloadEnabled /\ shouldAutoReload(event)
       THEN /\ BagCardinality(reloads) < MaxPending
            /\ reloads' = reloads (+) SetToBag({ReloadCall(event)})
       ELSE reloads' = reloads
    /\ notification' = IF shouldAutoReload(event) THEN {Info(event.repository_id)} ELSE notification
    /\ window' = IF shouldAutoReload(event) THEN window \cup {event.repository_id} ELSE window
    /\ ret' = Logged(event)
    /\ rival' = Settle
    /\ UNCHANGED <<servers, tasks, lock, call, extAll, repositories>>
    /\ UNCHANGED <<agent_libraries, rpcVars, disk, autoReloadEnabled, appConfig, uiVars>>

\* toggleAutoReload: autoReloadEnabled.update((enabled) => !enabled); the store
\* calls every subscriber with the new value
toggleAutoReload ==
    /\ autoReloadEnabled' = ~autoReloadEnabled
    /\ IF ~autoReloadEnabled
       THEN /\ BagCardinality(reloads (+) ReloadingSubscribers) <= MaxPending
            /\ reloads' = reloads (+) ReloadingSubscribers
       ELSE reloads' = reloads
    /\ ret' = {}
    /\ rival' = Settle
    /\ UNCHANGED <<servers, tasks, lock, call, extAll, repositories>>
    /\ UNCHANGED <<agent_libraries, rpcVars, disk, subscribers, notification, window, appConfig, uiVars>>

\* time passes: the debounce window of every repository elapses without an event
Elapse ==
    /\ window # {}
    /\ window' = {}
    /\ ret' = {}
    /\ rival' = Settle
    /\ UNCHANGED <<servers, tasks, lock, call, extAll, repositories>>
    /\ UNCHANGED <<agent_libraries, rpcVars, disk, subscribers, autoReloadEnabled, reloads,
                   notification, appConfig, uiVars>>

\* the user edits the library files of a repository
EditLibrary(id, valid) ==
    /\ disk[id].ver < MaxVersion
    /\ disk' = [disk EXCEPT ![id] = [ver |-> disk[id].ver + 1, valid |-> valid]]
    /\ ret' = {}
    /\ rival' = Settle
    /\ UNCHANGED <<servers, tasks, lock, call, extAll, repositories>>
    /\ UNCHANGED <<agent_libraries, rpcVars, subscribers, autoReloadEnabled, reloads,
                   notification, window, appConfig, uiVars>>

\* the backend command reload_agent_library: the library is parsed again at the
\* registered path of the live instance; a failure leaves the snapshot, a success
\* replaces it under the write guard; without an instance there is nothing to do
reload_parse(id) == IF contains_key(id) THEN ParseOf(id) ELSE "Ok"

reload_snapshot(id) ==
    IF contains_key(id) /\ ParseOf(id) = "Ok"
    THEN [agent_libraries EXCEPT ![id] = <<AgentLibrary(disk[id].ver)>>]
    ELSE agent_libraries

reload_servers(id) == servers

\* mutant: the catch block stops the server whose reload failed
reloadAgentLibrary_stopping(r) ==
    /\ r \in BagToSet(reloads)
    /\ contains_key(r.repositoryId) => readers[r.repositoryId] = {}
    /\ reloads' = reloads (-) SetToBag({r})
    /\ agent_libraries' = reload_snapshot(r.repositoryId)
    /\ servers' = IF reload_parse(r.repositoryId) = "Ok" THEN servers ELSE remove(r.repositoryId)
    /\ notification' = IF reload_parse(r.repositoryId) = "Ok"
                       THEN {Success(r.repositoryId)} ELSE {Error(r.repositoryId)}
    /\ ret' = {[caller |-> "watcher", op |-> "reload", id |-> {r.repositoryId},
                result |-> reload_parse(r.repositoryId)]}
    /\ rival' = Settle
    /\ tasks' = IF reload_parse(r.repositoryId) = "Ok" THEN tasks
                ELSE Collect({[t EXCEPT !.abort = t.abort \/ t.repo = r.repositoryId,
                                        !.held = t.held /\ t.repo # r.repositoryId] : t \in tasks})
    /\ UNCHANGED <<lock, call, extAll, repositories>>
    /\ UNCHANGED <<rpcVars, disk, subscribers, autoReloadEnabled, window, appConfig, uiVars>>

\* mutant: a reload for a repository without a server starts one
reloadAgentLibrary_starting(r) ==
    /\ r \in BagToSet(reloads)
    /\ contains_key(r.repositoryId) => readers[r.repositoryId] = {}
    /\ reloads' = reloads (-) SetToBag({r})
    /\ agent_libraries' = reload_snapshot(r.repositoryId)
    /\ servers' = IF contains_key(r.repositoryId) THEN servers
                  ELSE insert(r.repositoryId, McpServerHandle(PortMax, RepoPath(r.repositoryId)))
    /\ notification' = IF reload_parse(r.repositoryId) = "Ok"
                       THEN {Success(r.repositoryId)} ELSE {Error(r.repositoryId)}
    /\ ret' = {[caller |-> "watcher", op |-> "reload", id |-> {r.repositoryId},
                result |-> reload_parse(r.repositoryId)]}
    /\ rival' = Settle
    /\ tasks' = IF contains_key(r.repositoryId) THEN tasks
                ELSE tasks \cup {Task(r.repositoryId, PortMax)}
    /\ UNCHANGED <<lock, call, extAll, repositories>>
    /\ UNCHANGED <<rpcVars, disk, subscribers, autoReloadEnabled, window, appConfig, uiVars>>

\* reloadAgentLibrary(repositoryId, repositoryPath): await invoke('reload_agent_library')
\* and the notification that follows it; the catch block reports and does not rethrow
reloadAgentLibrary(r) ==
    /\ r \in BagToSet(reloads)
    /\ contains_key(r.repositoryId) => readers[r.repositoryId] = {}
    /\ reloads' = reloads (-) SetToBag({r})
    /\ agent_libraries' = reload_snapshot(r.repositoryId)
    /\ servers' = reload_servers(r.repositoryId)
    /\ notification' = IF reload_parse(r.repositoryId) = "Ok"
                       THEN {Success(r.repositoryId)} ELSE {Error(r.repositoryId)}
    /\ ret' = {[caller |-> "watcher", op |-> "reload", id |-> {r.repositoryId},
                result |-> reload_parse(r.repositoryId)]}
    /\ rival' = Settle
    /\ UNCHANGED <<tasks, lock, call, extAll, repositories>>
    /\ UNCHANGED <<rpcVars, disk, subscribers, autoReloadEnabled, window, appConfig, uiVars>>

\* ------------------------------------------------- status synchronisation
\* what invoke('get_mcp_server_status') yields: null, a value that is no object, an
\* object whose port and status may each be missing, or a rejection
StatusNull == [kind |-> "null", port |-> {}, status |-> {}]

StatusText == [kind |-> "string", port |-> {}, status |-> {}]

StatusThrows == [kind |-> "throws", port |-> {}, status |-> {}]

StatusObject(port, status) == [kind |-> "object", port |-> port, status |-> status]

\* the truthiness of an optional number
TruthyNumber(x) == x # {} /\ x # {0}

\* the truthiness of an optional string
TruthyString(x) == x # {} /\ x # {""}

\* the frontend calls invoke(cmd, args); ok: the promise resolves
Invoked(cmd, args, ok) == [cmd |-> cmd, args |-> args, ok |-> ok]

\* A run is the store and the backend commands invoked so far by the function that
\* is running.
Run(config) == [config |-> config, invokes |-> <<>>]

\* repositories.find((r) => r.id === id)
find(repos, id) ==
    LET hits == {i \in DOMAIN repos : repos[i].id = id}
    IN IF hits = {} THEN {} ELSE {repos[CHOOSE i \in hits : \A j \in hits : i <= j]}

\* ConfigAPI.getCurrentConfig: load_app_config is invoked and the store set to its
\* result; on a rejection the store is read. Either way the config it returns is
\* run.config.
getCurrentConfig(run) ==
    [run EXCEPT !.invokes = Append(@, Invoked("load_app_config", <<>>, TRUE))]

\* repository?.mcp_server?.port || 9500
currentPort(config, id) ==
    LET ports == UNION {{m.port : m \in r.mcp_server} : r \in find(config.repositories, id)}
    IN IF TruthyNumber(ports) THEN CHOOSE p \in ports : TRUE ELSE DefaultPort

\* ConfigAPI.updateMcpServerStatus: update_repository_mcp_status is invoked, then
\* the store maps the repository to mcp_server { port, status }; a rejection is
\* rethrown (throws) and leaves the store alone
updateMcpServerStatus(run, id, port, status, throws) ==
    [config |-> IF throws THEN run.config
                ELSE [run.config EXCEPT !.repositories =
                        [i \in DOMAIN run.config.repositories |->
                            IF run.config.repositories[i].id = id
                            THEN [run.config.repositories[i] EXCEPT
                                     !.mcp_server = {McpServerConfig(port, status)}]
                            ELSE run.config.repositories[i]]],
     invokes |-> Append(run.invokes,
                        Invoked("update_repository_mcp_status", <<id, port, status>>, ~throws))]

\* mutant: the fallback leaves the stored status as it is
persistStopped_keeping_status(run, id, throws) ==
    LET kept == {m.status : m \in UNION {r.mcp_server : r \in find(run.config.repositories, id)}}
    IN updateMcpServerStatus(getCurrentConfig(run), id, currentPort(run.config, id),
                             IF kept = {} THEN "stopped" ELSE CHOOSE st \in kept : TRUE, throws)

\* getCurrentConfig, then updateMcpServerStatus(id, currentPort, 'stopped')
persistStopped(run, id, throws) ==
    updateMcpServerStatus(getCurrentConfig(run), id, currentPort(run.config, id), "stopped", throws)

\* mutant: a reported status is stored with the configured port
syncRepositoryStateFromTauri_keeping_port(run, id, reply, fails) ==
    LET asked == [run EXCEPT !.invokes =
                     Append(@, Invoked("get_mcp_server_status", <<id>>, reply.kind # "throws"))]
        reported == reply.kind = "object" /\ TruthyNumber(reply.port) /\ TruthyString(reply.status)
        tried == IF reply.kind = "throws" THEN asked
                 ELSE IF reported
                 THEN updateMcpServerStatus(asked, id, currentPort(run.config, id),
                                            CHOOSE st \in reply.status : TRUE, fails[1])
                 ELSE persistStopped(asked, id, fails[1])
    IN IF reply.kind = "throws" THEN persistStopped(tried, id, fails[1])
       ELSE IF fails[1] THEN persistStopped(tried, id, fails[2])
       ELSE tried

\* syncRepositoryStateFromTauri: the status is asked for; an object with port and
\* status is stored as it is, anything else as 'stopped' with the current port; when
\* the query or the update throws, the catch block stores 'stopped' and swallows a
\* further failure. fails[k]: the k-th update of the run is rejected.
syncRepositoryStateFromTauri(run, id, reply, fails) ==
    LET asked == [run EXCEPT !.invokes =
                     Append(@, Invoked("get_mcp_server_status", <<id>>, reply.kind # "throws"))]
        reported == reply.kind = "object" /\ TruthyNumber(reply.port) /\ TruthyString(reply.status)
        tried == IF reply.kind = "throws" THEN asked
                 ELSE IF reported
                 THEN updateMcpServerStatus(asked, id, CHOOSE p \in reply.port : TRUE,
                                            CHOOSE st \in reply.status : TRUE, fails[1])
                 ELSE persistStopped(asked, id, fails[1])
    IN IF reply.kind = "throws" THEN persistStopped(tried, id, fails[1])
       ELSE IF fails[1] THEN persistStopped(tried, id, fails[2])
       ELSE tried

\* the answer of the backend for a repository: its entry of the status list, null
\* without one
get_mcp_server_status(id) ==
    LET entries == {e \in ServerStatusList : e.repository_id = id}
    IN IF entries = {} THEN StatusNull
       ELSE StatusObject({(CHOOSE e \in entries : TRUE).port},
                         {(CHOOSE e \in entries : TRUE).status})

\* the function returns to the component that called it; given: its argument and
\* what the backend answered during the run
Returned(op, id, given, result, run) ==
    {[caller |-> "layout", op |-> op, id |-> id, given |-> given, result |-> result,
      invokes |-> run.invokes]}

\* a component calls syncRepositoryStateFromTauri(id)
InvokeSync(id, reply, fails) ==
    LET out == syncRepositoryStateFromTauri(Run(appConfig), id, reply, fails)
    IN /\ appConfig' = out.config
       /\ ret' = Returned("sync", {id}, [reply |-> reply, fails |-> fails], "resolved", out)
    /\ rival' = Settle
    /\ UNCHANGED <<servers, tasks, lock, call, extAll, repositories>>
    /\ UNCHANGED <<agent_libraries, rpcVars, watchVars, uiVars>>

\* for (const repo of repositories) await syncRepositoryStateFromTauri(repo.id)
RECURSIVE SyncEach(_, _, _, _)
SyncEach(run, repos, replyOf, fails) ==
    IF repos = <<>> THEN run
    ELSE SyncEach(syncRepositoryStateFromTauri(run, Head(repos).id, replyOf[Head(repos).id], fails),
                  Tail(repos), replyOf, fails)

\* repo.mcp_server?.status === 'running'
IsRunning(repo) == \E m \in repo.mcp_server : m.status = "running"

\* mutant: every repository is synchronised, whatever its stored status
performPeriodicSync_all(run, repos, replyOf, fails) ==
    LET synced == SyncEach(run, repos, replyOf, fails)
    IN IF repos # <<>>
       THEN [run |-> getCurrentConfig(synced),
             result |-> [array |-> "fresh", items |-> synced.config.repositories]]
       ELSE [run |-> run, result |-> [array |-> "given", items |-> repos]]

\* performPeriodicSync: the repositories stored as running are synchronised in
\* turn; if there was one the config is read again and a copy of its list
\* returned, otherwise the array that was passed in
performPeriodicSync(run, repos, replyOf, fails) ==
    LET running == SelectSeq(repos, IsRunning)
        synced == SyncEach(run, running, replyOf, fails)
    IN IF running # <<>>
       THEN [run |-> getCurrentConfig(synced),
             result |-> [array |-> "fresh", items |-> synced.config.repositories]]
       ELSE [run |-> run, result |-> [array |-> "given", items |-> repos]]

\* the periodic timer of the layout fires with the list the store holds
InvokePeriodicSync(replyOf, fails) ==
    LET out == performPeriodicSync(Run(appConfig), appConfig.repositories, replyOf, fails)
    IN /\ appConfig' = out.run.config
       /\ ret' = Returned("periodic", {},
                          [repositories |-> appConfig.repositories, replyOf |-> replyOf,
                           fails |-> fails],
                          out.result, out.run)
    /\ rival' = Settle
    /\ UNCHANGED <<servers, tasks, lock, call, extAll, repositories>>
    /\ UNCHANGED <<agent_libraries, rpcVars, watchVars, uiVars>>

\* mutant: the default repository is always the first of the list
loadInitialConfig_first(run, loaded, replyOf, fails) ==
    IF loaded = {}
    THEN [run |-> [run EXCEPT !.invokes = Append(@, Invoked("load_app_config", <<>>, FALSE))],
          result |-> {}]
    ELSE LET config == CHOOSE c \in loaded : TRUE
             started == [config |-> config,
                         invokes |-> Append(run.invokes, Invoked("load_app_config", <<>>, TRUE))]
             updated == getCurrentConfig(SyncEach(started, config.repositories, replyOf, fails))
             repos == updated.config.repositories
         IN [run |-> updated,
             result |-> {[repositories |-> repos,
                          defaultRepository |-> IF Len(repos) > 0 THEN {repos[1]} ELSE {}]}]

\* loadInitialConfig: the config is loaded (loaded = {}: the load throws and the
\* error is rethrown), every repository of it synchronised in turn, the config read
\* again and the default repository chosen from it
loadInitialConfig(run, loaded, replyOf, fails) ==
    IF loaded = {}
    THEN [run |-> [run EXCEPT !.invokes = Append(@, Invoked("load_app_config", <<>>, FALSE))],
          result |-> {}]
    ELSE LET config == CHOOSE c \in loaded : TRUE
             started == [config |-> config,
                         invokes |-> Append(run.invokes, Invoked("load_app_config", <<>>, TRUE))]
             updated == getCurrentConfig(SyncEach(started, config.repositories, replyOf, fails))
             repos == updated.config.repositories
             last == updated.config.last_opened_repository
             found == UNION {find(repos, id) : id \in last}
         IN [run |-> updated,
             result |-> {[repositories |-> repos,
                          defaultRepository |->
                              IF Len(repos) > 0
                              THEN IF TruthyString(last) /\ found # {} THEN found ELSE {repos[1]}
                              ELSE {}]}]

\* the layout is mounted and calls loadInitialConfig()
InvokeLoadInitialConfig(loaded, replyOf, fails) ==
    LET out == loadInitialConfig(Run(appConfig), loaded, replyOf, fails)
    IN /\ appConfig' = out.run.config
       /\ ret' = Returned("load", {}, [loaded |-> loaded, replyOf |-> replyOf, fails |-> fails],
                          out.result, out.run)
    /\ rival' = Settle
    /\ UNCHANGED <<servers, tasks, lock, call, extAll, repositories>>
    /\ UNCHANGED <<agent_libraries, rpcVars, watchVars, uiVars>>

\* the component has taken the result of the function it awaited
LayoutSettles ==
    /\ \E r \in ret : r.caller = "layout"
    /\ ret' = {}
    /\ rival' = Settle
    /\ UNCHANGED <<servers, tasks, lock, call, extAll, repositories>>
    /\ UNCHANGED <<agent_libraries, rpcVars, watchVars, appConfig, uiVars>>

\* ------------------------------------------------------------ the layout
\* The layout loads the config when it is mounted and synchronises the stored
\* server status with the backend, one function at a time. What the backend
\* answers is left open.
StatusReplies ==
    {StatusNull, StatusText, StatusThrows,
     StatusObject({PortMin + 1}, {"running"}), StatusObject({PortMin + 2}, {"error"}),
     StatusObject({}, {}), StatusObject({PortMin + 1}, {}), StatusObject({0}, {"running"})}

LoopReplies ==
    {StatusNull, StatusThrows, StatusObject({PortMin + 1}, {"running"}),
     StatusObject({PortMin}, {"stopped"})}

\* which of the (at most two) updates of a synchronisation are rejected
Failures == {<<FALSE, FALSE>>, <<TRUE, FALSE>>, <<TRUE, TRUE>>}

StoredServers ==
    {{}, {McpServerConfig(DefaultPort, "stopped")}, {McpServerConfig(PortMin + 1, "running")},
     {McpServerConfig(PortMin + 2, "error")}}

RepositoryConfigs == {RepositoryConfig(id, m) : id \in Repos, m \in StoredServers}

\* the lists of repositories with distinct ids
RepositoryLists ==
    UNION {{l \in [1..n -> RepositoryConfigs] : \A i, j \in 1..n : l[i].id = l[j].id => i = j} :
              n \in 0..Cardinality(Repos)}

Configs == {AppConfig(l, last) : l \in RepositoryLists, last \in {{}} \cup {{id} : id \in Repos}}

NextLayout ==
    \/ /\ ret = {}
       /\ appConfig = DefaultConfig
       /\ \E loaded \in {{}} \cup {{c} : c \in Configs}, replyOf \in [Repos -> LoopReplies],
             fails \in Failures : InvokeLoadInitialConfig(loaded, replyOf, fails)
    \/ /\ ret = {}
       /\ \E id \in Repos, reply \in StatusReplies, fails \in Failures :
             InvokeSync(id, reply, fails)
    \/ /\ ret = {}
       /\ \E replyOf \in [Repos -> LoopReplies], fails \in Failures :
             InvokePeriodicSync(replyOf, fails)
    \/ LayoutSettles

SpecLayout == Init /\ [][NextLayout]_vars

\* ==================================================================
\* The repositories of the store: registering, selecting and removing
\* ==================================================================
\* createRepositoryConfig: a repository without mcp_server
createRepositoryConfig(id) == RepositoryConfig(id, {})

\* ConfigAPI.addRepository: add_repository_config is invoked, then the store replaces
\* the repository of that id or appends it; a rejection is rethrown (throws) and
\* leaves the store alone
ConfigAPI_addRepository(run, repository, throws) ==
    LET repos == run.config.repositories
        hits == {i \in DOMAIN repos : repos[i].id = repository.id}
    IN [config |-> IF throws THEN run.config
                   ELSE [run.config EXCEPT !.repositories =
                            IF hits # {}
                            THEN [repos EXCEPT
                                     ![CHOOSE i \in hits : \A j \in hits : i <= j] = repository]
                            ELSE Append(repos, repository)],
        invokes |-> Append(run.invokes,
                           Invoked("add_repository_config", <<repository>>, ~throws))]

\* mutant: the store drops the repository whatever the backend resolves to
ConfigAPI_removeRepository_unconditional(run, repositoryId, removed) ==
    LET keeps(r) == r.id # repositoryId
    IN [config |-> IF removed # {}
                   THEN [run.config EXCEPT !.repositories = SelectSeq(@, keeps)]
                   ELSE run.config,
        invokes |-> Append(run.invokes,
                           Invoked("remove_repository_config", <<repositoryId>>, removed # {}))]

\* ConfigAPI.removeRepository: remove_repository_config is invoked; removed is what
\* it resolves to ({} when it rejects); the store drops the repository on true
ConfigAPI_removeRepository(run, repositoryId, removed) ==
    LET keeps(r) == r.id # repositoryId
    IN [config |-> IF removed = {TRUE}
                   THEN [run.config EXCEPT !.repositories = SelectSeq(@, keeps)]
                   ELSE run.config,
        invokes |-> Append(run.invokes,
                           Invoked("remove_repository_config", <<repositoryId>>, removed # {}))]

\* setSelectedRepository: for a repository the config is read and the store set to
\* the entry of that id, or to the repository given when there is none; null is
\* stored as it is. value: what selectedRepository is set to.
setSelectedRepository(run, repository) ==
    IF repository = {} THEN [run |-> run, value |-> {}]
    ELSE LET read == getCurrentConfig(run)
             updated == UNION {find(read.config.repositories, r.id) : r \in repository}
         IN [run |-> read, value |-> IF updated # {} THEN updated ELSE repository]

\* the toolbar's subscription to selectedRepository: currentSelectedRepository = value;
\* updateServerStatus(value)
updateServerStatus(repo) ==
    [currentSelectedRepository |-> repo,
     serverStatus |-> IF \E r \in repo : r.mcp_server # {}
                      THEN CHOOSE st \in UNION {{m.status : m \in r.mcp_server} : r \in repo} : TRUE
                      ELSE "stopped",
     serverPort |-> UNION {{m.port : m \in r.mcp_server} : r \in repo}]

\* config.repositories.filter((r) => r.mcp_server?.port).map((r) => r.mcp_server!.port)
existingPortsOf(config) ==
    {p \in UNION {{m.port : m \in config.repositories[i].mcp_server} :
                     i \in DOMAIN config.repositories} : TruthyNumber({p})}

\* while (existingPorts.includes(port)) { port++; }
RECURSIVE FirstFreePort(_, _)
FirstFreePort(ports, port) == IF port \in ports THEN FirstFreePort(ports, port + 1) ELSE port

\* mutant: the scan starts one port above the default
Layout_handleAddRepository_from_next(run, selectedPath, agentLibraryExists, id, rejected, loads, replyOf, fails) ==
    IF selectedPath = {}
    THEN [run |-> run, selects |-> <<>>,
          result |-> {[repositories |-> <<>>, newRepository |-> {}]}]
    ELSE LET validated == [run EXCEPT !.invokes =
                              Append(@, Invoked("validate_agent_library", <<selectedPath>>, TRUE))]
             read == getCurrentConfig(validated)
             port == FirstFreePort(existingPortsOf(read.config), DefaultPort + 1)
             newRepository == RepositoryConfig(id, {McpServerConfig(port, "stopped")})
             added == ConfigAPI_addRepository(read, newRepository, rejected)
             loaded == loadInitialConfig(added, IF loads THEN {added.config} ELSE {}, replyOf, fails)
             selected == setSelectedRepository(loaded.run, {newRepository})
         IN IF ~agentLibraryExists THEN [run |-> validated, selects |-> <<>>, result |-> {}]
            ELSE IF rejected THEN [run |-> added, selects |-> <<>>, result |-> {}]
            ELSE IF loaded.result = {} THEN [run |-> loaded.run, selects |-> <<>>, result |-> {}]
            ELSE [run |-> selected.run, selects |-> <<selected.value>>,
                  result |-> {[repositories |-> r.repositories, newRepository |-> {newRepository}] :
                                 r \in loaded.result}]

\* mutant: the repository is added before the directory is validated
Layout_handleAddRepository_adding_first(run, selectedPath, agentLibraryExists, id, rejected, loads, replyOf, fails) ==
    IF selectedPath = {}
    THEN [run |-> run, selects |-> <<>>,
          result |-> {[repositories |-> <<>>, newRepository |-> {}]}]
    ELSE LET validated == [run EXCEPT !.invokes =
                              Append(@, Invoked("validate_agent_library", <<selectedPath>>, TRUE))]
             read == getCurrentConfig(validated)
             port == FirstFreePort(existingPortsOf(read.config), DefaultPort)
             newRepository == RepositoryConfig(id, {McpServerConfig(port, "stopped")})
             added == ConfigAPI_addRepository(read, newRepository, rejected)
             loaded == loadInitialConfig(added, IF loads THEN {added.config} ELSE {}, replyOf, fails)
             selected == setSelectedRepository(loaded.run, {newRepository})
         IN IF ~agentLibraryExists THEN [run |-> added, selects |-> <<>>, result |-> {}]
            ELSE IF rejected THEN [run |-> added, selects |-> <<>>, result |-> {}]
            ELSE IF loaded.result = {} THEN [run |-> loaded.run, selects |-> <<>>, result |-> {}]
            ELSE [run |-> selected.run, selects |-> <<selected.value>>,
                  result |-> {[repositories |-> r.repositories, newRepository |-> {newRepository}] :
                                 r \in loaded.result}]

\* handleAddRepository: the dialog yields a path or null (selectedPath = {}), for
\* which the empty result is returned; a path without .agent_library throws. The
\* new repository gets the first port from 9500 on that no repository of the
\* config has and is added as 'stopped'; every repository is synchronised again
\* and the new one selected. result = {}: the function throws. selects: the values
\* selectedRepository was set to.
Layout_handleAddRepository(run, selectedPath, agentLibraryExists, id, rejected, loads, replyOf, fails) ==
    IF selectedPath = {}
    THEN [run |-> run, selects |-> <<>>,
          result |-> {[repositories |-> <<>>, newRepository |-> {}]}]
    ELSE LET validated == [run EXCEPT !.invokes =
                              Append(@, Invoked("validate_agent_library", <<selectedPath>>, TRUE))]
             read == getCurrentConfig(validated)
             port == FirstFreePort(existingPortsOf(read.config), DefaultPort)
             newRepository == RepositoryConfig(id, {McpServerConfig(port, "stopped")})
             added == ConfigAPI_addRepository(read, newRepository, rejected)
             loaded == loadInitialConfig(added, IF loads THEN {added.config} ELSE {}, replyOf, fails)
             selected == setSelectedRepository(loaded.run, {newRepository})
         IN IF ~agentLibraryExists THEN [run |-> validated, selects |-> <<>>, result |-> {}]
            ELSE IF rejected THEN [run |-> added, selects |-> <<>>, result |-> {}]
            ELSE IF loaded.result = {} THEN [run |-> loaded.run, selects |-> <<>>, result |-> {}]
            ELSE [run |-> selected.run, selects |-> <<selected.value>>,
                  result |-> {[repositories |-> r.repositories, newRepository |-> {newRepository}] :
                                 r \in loaded.result}]

\* selectedRepository.set(value) for each value in turn; the toolbar follows
Selecting(selects) ==
    IF selects = <<>>
    THEN UNCHANGED <<selectedRepository, toolbar>>
    ELSE /\ selectedRepository' = selects[Len(selects)]
         /\ toolbar' = updateServerStatus(selects[Len(selects)])

\* the user presses "add repository" in the sidebar
InvokeHandleAddRepository(selectedPath, agentLibraryExists, id, rejected, loads, replyOf, fails) ==
    LET out == Layout_handleAddRepository(Run(appConfig), selectedPath, agentLibraryExists, id,
                                          rejected, loads, replyOf, fails)
    IN /\ appConfig' = out.run.config
       /\ Selecting(out.selects)
       /\ ret' = Returned("add", {id},
                          [selectedPath |-> selectedPath, agentLibraryExists |-> agentLibraryExists,
                           rejected |-> rejected, loads |-> loads],
                          out.result, out.run)
    /\ rival' = Settle
    /\ UNCHANGED <<servers, tasks, lock, call, extAll, repositories>>
    /\ UNCHANGED <<agent_libraries, rpcVars, watchVars, awaits, eventListener, listeners>>

\* the repository list adds a repository made by createRepositoryConfig; a rejection
\* is shown as a notification
InvokeAddRepository(id, throws) ==
    LET out == ConfigAPI_addRepository(Run(appConfig), createRepositoryConfig(id), throws)
    IN /\ appConfig' = out.config
       /\ ret' = Returned("store-add", {id}, [throws |-> throws],
                          IF throws THEN "rejected" ELSE "resolved", out)
    /\ rival' = Settle
    /\ UNCHANGED <<servers, tasks, lock, call, extAll, repositories>>
    /\ UNCHANGED <<agent_libraries, rpcVars, watchVars, uiVars>>

\* the repository list removes a repository
InvokeRemoveRepository(id, removed) ==
    LET out == ConfigAPI_removeRepository(Run(appConfig), id, removed)
    IN /\ appConfig' = out.config
       /\ ret' = Returned("store-remove", {id}, [removed |-> removed],
                          IF removed = {} THEN "rejected" ELSE "resolved", out)
    /\ rival' = Settle
    /\ UNCHANGED <<servers, tasks, lock, call, extAll, repositories>>
    /\ UNCHANGED <<agent_libraries, rpcVars, watchVars, uiVars>>

\* ------------------------------------------------------------ the store
\* Repositories are registered through the directory dialog or the repository
\* list, synchronised and removed, one function at a time. A new repository gets
\* an id no repository of the config has. No server is started here: the backend
\* answers every status query with null.
FreshIds == {id \in Repos : find(appConfig.repositories, id) = {}}

NoServers == [id \in Repos |-> StatusNull]

NextStore ==
    \/ /\ ret = {}
       /\ \E selectedPath \in {{}} \cup {{RepoPath(id)} : id \in Repos},
             agentLibraryExists \in BOOLEAN, id \in FreshIds, rejected \in BOOLEAN,
             loads \in BOOLEAN :
             InvokeHandleAddRepository(selectedPath, agentLibraryExists, id, rejected, loads,
                                       NoServers, <<FALSE, FALSE>>)
    \/ /\ ret = {}
       /\ \E id \in FreshIds, throws \in BOOLEAN : InvokeAddRepository(id, throws)
    \/ /\ ret = {}
       /\ \E id \in Repos, removed \in {{}, {TRUE}, {FALSE}} :
             /\ removed = {TRUE} => find(appConfig.repositories, id) # {}
             /\ InvokeRemoveRepository(id, removed)
    \/ /\ ret = {}
       /\ \E id \in Repos : InvokeSync(id, NoServers[id], <<FALSE, FALSE>>)
    \/ LayoutSettles

SpecStore == Init /\ [][NextStore]_vars

\* ==================================================================
\* The toolbar: starting and stopping the server of the selected repository
\* ==================================================================
\* ConfigAPI.updateLastOpenedRepository: the config is read, last_opened_repository
\* set and the whole config saved
updateLastOpenedRepository(run, id) ==
    LET read == getCurrentConfig(run)
        config == [read.config EXCEPT !.last_opened_repository = {id}]
    IN [config |-> config,
        invokes |-> Append(read.invokes, Invoked("save_app_config", <<config>>, TRUE))]

\* handleRepositorySelect: the repository is synchronised with the backend, the
\* config read again and its entry of that id, if there is one, selected and saved
\* as the repository opened last
Layout_handleRepositorySelect(run, id, reply, fails) ==
    LET synced == getCurrentConfig(syncRepositoryStateFromTauri(run, id, reply, fails))
        updatedRepository == find(synced.config.repositories, id)
        selected == setSelectedRepository(synced, updatedRepository)
    IN IF updatedRepository = {}
       THEN [run |-> synced, selects |-> <<>>,
             result |-> {[repositories |-> synced.config.repositories, updatedRepository |-> {}]}]
       ELSE [run |-> updateLastOpenedRepository(selected.run, id),
             selects |-> <<selected.value>>,
             result |-> {[repositories |-> synced.config.repositories,
                          updatedRepository |-> updatedRepository]}]

\* the user clicks a repository of the sidebar
InvokeSelect(id, reply, fails) ==
    LET out == Layout_handleRepositorySelect(Run(appConfig), id, reply, fails)
    IN /\ appConfig' = out.run.config
       /\ Selecting(out.selects)
       /\ ret' = Returned("select", {id}, [reply |-> reply, fails |-> fails], out.result, out.run)
    /\ rival' = Settle
    /\ UNCHANGED <<servers, tasks, lock, call, extAll, repositories>>
    /\ UNCHANGED <<agent_libraries, rpcVars, watchVars, awaits, eventListener, listeners>>

\* the caller through which the toolbar invokes the server commands
ToolbarCaller == "c1"

ToolbarNote(type, id) == {[type |-> type, repositoryId |-> id]}

\* the function of the toolbar that waits for its command to return
Awaiting(fn) == {a \in awaits : a.fn = fn}

\* the command of the toolbar has returned
Returns(op) == {r \in ret : r.caller = ToolbarCaller /\ r.op = op}

\* startMcpServer up to its await: without a configured port an error is shown;
\* otherwise the toolbar shows 'starting', fixedPort is the port of the repository
\* selected now, and start_repository_mcp_server is invoked for it
Toolbar_startMcpServer ==
    /\ awaits = {} /\ ret = {}
    /\ call[ToolbarCaller].pc = "idle"
    /\ \E repo \in toolbar.currentSelectedRepository :
          LET ports == {m.port : m \in repo.mcp_server}
          IN IF ~TruthyNumber(ports)
             THEN /\ notification' = ToolbarNote("error", repo.id)
                  /\ UNCHANGED <<toolbar, awaits, call>>
             ELSE /\ toolbar' = [toolbar EXCEPT !.serverStatus = "starting"]
                  /\ awaits' = {[fn |-> "startMcpServer", fixedPort |-> CHOOSE p \in ports : TRUE]}
                  /\ call' = [call EXCEPT ![ToolbarCaller] =
                                 [IdleCall EXCEPT !.op = "start", !.id = {repo.id}, !.pc = "lock"]]
                  /\ notification' = notification
    /\ ret' = {}
    /\ rival' = Settle
    /\ UNCHANGED <<servers, tasks, lock, extAll, repositories, agent_libraries, rpcVars>>
    /\ UNCHANGED <<disk, subscribers, autoReloadEnabled, reloads, window>>
    /\ UNCHANGED <<appConfig, selectedRepository, eventListener, listeners>>

\* startMcpServer after its await. The command resolved: the toolbar shows 'running'
\* with fixedPort; the repository that is selected now gets mcp_server { fixedPort,
\* 'running' }, is set as the selected repository and persisted under its id
\* (throws: the update is rejected, the catch block shows 'error'). The command
\* rejected: the toolbar shows 'error'.
Toolbar_startMcpServer_returns(throws) ==
    /\ \E a \in Awaiting("startMcpServer"), r \in Returns("start") :
          IF r.result.ok
          THEN IF toolbar.currentSelectedRepository = {}
               THEN /\ toolbar' = [toolbar EXCEPT !.serverStatus = "running",
                                                  !.serverPort = {a.fixedPort}]
                    /\ notification' = ToolbarNote("success", CHOOSE id \in r.id : TRUE)
                    /\ UNCHANGED <<appConfig, selectedRepository>>
               ELSE LET current == CHOOSE repo \in toolbar.currentSelectedRepository : TRUE
                        updated == [current EXCEPT
                                       !.mcp_server = {McpServerConfig(a.fixedPort, "running")}]
                        out == updateMcpServerStatus(Run(appConfig), current.id, a.fixedPort,
                                                     "running", throws)
                    IN /\ selectedRepository' = {updated}
                       /\ toolbar' = [updateServerStatus({updated}) EXCEPT
                                         !.serverStatus = IF throws THEN "error" ELSE @]
                       /\ appConfig' = out.config
                       /\ notification' = ToolbarNote(IF throws THEN "error" ELSE "success",
                                                      current.id)
          ELSE /\ toolbar' = [toolbar EXCEPT !.serverStatus = "error"]
               /\ notification' = ToolbarNote("error", CHOOSE id \in r.id : TRUE)
               /\ UNCHANGED <<appConfig, selectedRepository>>
    /\ awaits' = {}
    /\ ret' = {}
    /\ rival' = Settle
    /\ UNCHANGED <<servers, tasks, lock, call, extAll, repositories, agent_libraries, rpcVars>>
    /\ UNCHANGED <<disk, subscribers, autoReloadEnabled, reloads, window>>
    /\ UNCHANGED <<eventListener, listeners>>

\* stopMcpServer up to its await: stop_repository_mcp_server is invoked for the
\* repository selected now
Toolbar_stopMcpServer ==
    /\ awaits = {} /\ ret = {}
    /\ call[ToolbarCaller].pc = "idle"
    /\ \E repo \in toolbar.currentSelectedRepository :
          call' = [call EXCEPT ![ToolbarCaller] =
                      [IdleCall EXCEPT !.op = "stop", !.id = {repo.id}, !.pc = "lock"]]
    /\ awaits' = {[fn |-> "stopMcpServer"]}
    /\ ret' = {}
    /\ rival' = Settle
    /\ UNCHANGED <<servers, tasks, lock, extAll, repositories, agent_libraries, rpcVars>>
    /\ UNCHANGED <<watchVars, appConfig, selectedRepository, toolbar, eventListener, listeners>>

\* stopMcpServer after its await. The command resolved: the toolbar shows 'stopped'
\* and no port; the repository that is selected now, if it has an mcp_server, gets
\* status 'stopped', is set as the selected repository and persisted with the port
\* of that copy. The command rejected: an error is shown.
Toolbar_stopMcpServer_returns(throws) ==
    /\ \E a \in Awaiting("stopMcpServer"), r \in Returns("stop") :
          IF r.result.ok
          THEN IF \E repo \in toolbar.currentSelectedRepository : repo.mcp_server # {}
               THEN LET current == CHOOSE repo \in toolbar.currentSelectedRepository : TRUE
                        server == CHOOSE m \in current.mcp_server : TRUE
                        updated == [current EXCEPT
                                       !.mcp_server = {McpServerConfig(server.port, "stopped")}]
                        out == updateMcpServerStatus(Run(appConfig), current.id, server.port,
                                                     "stopped", throws)
                    IN /\ selectedRepository' = {updated}
                       /\ toolbar' = updateServerStatus({updated})
                       /\ appConfig' = out.config
                       /\ notification' = ToolbarNote(IF throws THEN "error" ELSE "info",
                                                      current.id)
               ELSE /\ toolbar' = [toolbar EXCEPT !.serverStatus = "stopped", !.serverPort = {}]
                    /\ notification' = ToolbarNote("info", CHOOSE id \in r.id : TRUE)
                    /\ UNCHANGED <<appConfig, selectedRepository>>
          ELSE /\ notification' = ToolbarNote("error", CHOOSE id \in r.id : TRUE)
               /\ UNCHANGED <<appConfig, selectedRepository, toolbar>>
    /\ awaits' = {}
    /\ ret' = {}
    /\ rival' = Settle
    /\ UNCHANGED <<servers, tasks, lock, call, extAll, repositories, agent_libraries, rpcVars>>
    /\ UNCHANGED <<disk, subscribers, autoReloadEnabled, reloads, window>>
    /\ UNCHANGED <<eventListener, listeners>>

\* ------------------------------------------------------------ the toolbar
\* Two repositories have been registered through the directory dialog, which gave
\* them the ports 9500 and 9501. The user selects repositories and starts and
\* stops the server of the selected one from the toolbar; the backend serves the
\* commands, and the layout synchronises the stored status with what the backend
\* reports. A command that has returned is taken by the toolbar before anything
\* else happens, and the user acts while no listener task is starting or ending.
AssignedConfig ==
    AppConfig(<<RepositoryConfig("repoA", {McpServerConfig(DefaultPort, "stopped")}),
                RepositoryConfig("repoB", {McpServerConfig(DefaultPort + 1, "stopped")})>>, {})

InitToolbar ==
    /\ servers = <<>>
    /\ tasks = {}
    /\ lock = {}
    /\ call = [c \in Callers |-> IdleCall]
    /\ ret = {}
    /\ rival = [c \in Callers |-> {}]
    /\ extAll = FALSE
    /\ repositories = {}
    /\ agent_libraries = [id \in Repos |-> <<>>]
    /\ readers = [id \in Repos |-> {}]
    /\ handlers = [h \in Clients |-> IdleHandler]
    /\ disk = [id \in Repos |-> [ver |-> 0, valid |-> TRUE]]
    /\ subscribers = EmptyBag
    /\ autoReloadEnabled = TRUE
    /\ reloads = EmptyBag
    /\ notification = {}
    /\ window = {}
    /\ appConfig = AssignedConfig
    /\ InitUi

\* what the backend answers to get_mcp_server_status for each repository
BackendReplies == [id \in Repos |-> get_mcp_server_status(id)]

\* the listener tasks have bound and the aborted ones are gone: the runtime is
\* faster than the user
Quiet == \A t \in tasks : t.st # "spawned" /\ ~(t.abort /\ Running(t))

NextToolbar ==
    \/ /\ ret = {} /\ Quiet
       /\ \E id \in Repos : InvokeSelect(id, BackendReplies[id], <<FALSE, FALSE>>)
    \/ /\ ret = {} /\ Quiet
       /\ InvokePeriodicSync(BackendReplies, <<FALSE, FALSE>>)
    \/ LayoutSettles
    \/ Quiet /\ Toolbar_startMcpServer
    \/ \E throws \in BOOLEAN : Toolbar_startMcpServer_returns(throws)
    \/ Quiet /\ Toolbar_stopMcpServer
    \/ \E throws \in BOOLEAN : Toolbar_stopMcpServer_returns(throws)
    \/ start_lock(ToolbarCaller)
    \/ start_find_port(ToolbarCaller)
    \/ \E id \in call[ToolbarCaller].id : start_parse_spawn(ToolbarCaller, ParseOf(id))
    \/ stop_repository_mcp_server(ToolbarCaller)
    \/ /\ Returns("start") \cup Returns("stop") = {}
       /\ \E t \in tasks : task_bind(t)
    \/ /\ Returns("start") \cup Returns("stop") = {}
       /\ \E t \in tasks : task_cancel(t)

SpecToolbar == InitToolbar /\ [][NextToolbar]_vars

\* ==================================================================
\* Writing the whole config while the server status is updated
\* ==================================================================
\* updateLastOpenedRepository up to the await of saveConfig: the config is read,
\* last_opened_repository set in the copy and save_app_config invoked with it
updateLastOpenedRepository_reads(id) ==
    /\ Awaiting("updateLastOpenedRepository") = {}
    /\ awaits' = awaits \cup
                 {[fn |-> "updateLastOpenedRepository", id |-> id,
                   config |-> [getCurrentConfig(Run(appConfig)).config EXCEPT
                                  !.last_opened_repository = {id}]]}
    /\ ret' = {}
    /\ rival' = Settle
    /\ UNCHANGED <<servers, tasks, lock, call, extAll, repositories>>
    /\ UNCHANGED <<agent_libraries, rpcVars, watchVars, appConfig>>
    /\ UNCHANGED <<selectedRepository, toolbar, eventListener, listeners>>

\* saveConfig after its await: save_app_config has replaced the persisted config by
\* the one passed and appConfig.set(config) follows; a rejection is rethrown
saveConfig_returns(a, ok) ==
    /\ a \in Awaiting("updateLastOpenedRepository")
    /\ awaits' = awaits \ {a}
    /\ appConfig' = IF ok THEN a.config ELSE appConfig
    /\ ret' = {}
    /\ rival' = Settle
    /\ UNCHANGED <<servers, tasks, lock, call, extAll, repositories>>
    /\ UNCHANGED <<agent_libraries, rpcVars, watchVars>>
    /\ UNCHANGED <<selectedRepository, toolbar, eventListener, listeners>>

\* Two repositories are registered. The repository opened last is saved while the
\* layout synchronises the status of the repositories with the backend, whose
\* answers are left open.
WriteReplies == {StatusNull, StatusObject({DefaultPort}, {"running"})}

NextWrite ==
    \/ \E id \in Repos : updateLastOpenedRepository_reads(id)
    \/ \E a \in awaits, ok \in BOOLEAN : saveConfig_returns(a, ok)
    \/ /\ ret = {}
       /\ \E id \in Repos, reply \in WriteReplies : InvokeSync(id, reply, <<FALSE, FALSE>>)
    \/ LayoutSettles

SpecWrite == InitToolbar /\ [][NextWrite]_vars

\* ------------------------------------------------------------ the application
\* One frontend caller starts, stops and queries the server of one repository while
\* the file watcher reports changes of its index file, automatic reloading is
\* switched on and off and the store is synchronised with the backend (while the
\* server is registered on the default port or not at all).
AppCaller == "c1"

AppRepo == "repoA"

Bystander == "repoB"

IndexEvent(id) ==
    FileChangeEvent(id, RepoRoot(id) \o AgentLibraryDir \o <<"/", "agent_index", ".yml">>)

\* both repositories have been registered in the store
InitApp ==
    /\ servers = <<>>
    /\ tasks = {}
    /\ lock = {}
    /\ call = [c \in Callers |-> IdleCall]
    /\ ret = {}
    /\ rival = [c \in Callers |-> {}]
    /\ extAll = FALSE
    /\ repositories = {}
    /\ agent_libraries = [id \in Repos |-> <<>>]
    /\ readers = [id \in Repos |-> {}]
    /\ handlers = [h \in Clients |-> IdleHandler]
    /\ disk = [id \in Repos |-> [ver |-> 0, valid |-> TRUE]]
    /\ subscribers = EmptyBag
    /\ autoReloadEnabled = TRUE
    /\ reloads = EmptyBag
    /\ notification = {}
    /\ window = {}
    /\ appConfig = RegisteredConfig
    /\ InitUi

NextApp ==
    \/ InvokeStart(AppCaller, AppRepo)
    \/ InvokeStop(AppCaller, AppRepo)
    \/ start_lock(AppCaller)
    \/ start_find_port(AppCaller)
    \/ \E id \in call[AppCaller].id : start_parse_spawn(AppCaller, ParseOf(id))
    \/ stop_repository_mcp_server(AppCaller)
    \/ get_server_status(AppCaller)
    \/ \E t \in tasks : task_bind(t)
    \/ \E t \in tasks : task_crash(t)
    \/ \E t \in tasks : task_cancel(t)
    \/ file_change(IndexEvent(AppRepo))
    \/ toggleAutoReload
    \/ \E r \in BagToSet(reloads) : reloadAgentLibrary(r)
    \/ \E reply \in {StatusThrows, get_mcp_server_status(AppRepo)} :
          /\ reply.port \subseteq {DefaultPort}
          /\ InvokeSync(AppRepo, reply, <<FALSE, FALSE>>)

SpecApp == InitApp /\ [][NextApp]_vars

\* ------------------------------------------------ two servers side by side
\* The server of the bystander repository is up; the caller starts and stops the
\* server of the other repository, whose library is edited and reloaded.
InitIsolation ==
    /\ servers = [id \in {Bystander} |-> McpServerHandle(PortMin, RepoPath(id))]
    /\ tasks = {[Task(Bystander, PortMin) EXCEPT !.st = "serving"]}
    /\ lock = {}
    /\ call = [c \in Callers |-> IdleCall]
    /\ ret = {}
    /\ rival = [c \in Callers |-> {}]
    /\ extAll = FALSE
    /\ repositories = {}
    /\ agent_libraries = [id \in Repos |-> IF id = Bystander THEN <<AgentLibrary(0)>> ELSE <<>>]
    /\ readers = [id \in Repos |-> {}]
    /\ handlers = [h \in Clients |-> IdleHandler]
    /\ disk = [id \in Repos |-> [ver |-> 0, valid |-> TRUE]]
    /\ subscribers = EmptyBag
    /\ autoReloadEnabled = TRUE
    /\ reloads = EmptyBag
    /\ notification = {}
    /\ window = {}
    /\ appConfig = DefaultConfig
    /\ InitUi

NextIsolation ==
    \/ InvokeStart(AppCaller, AppRepo)
    \/ InvokeStop(AppCaller, AppRepo)
    \/ start_lock(AppCaller)
    \/ start_find_port(AppCaller)
    \/ \E id \in call[AppCaller].id : start_parse_spawn(AppCaller, ParseOf(id))
    \/ stop_repository_mcp_server(AppCaller)
    \/ \E t \in tasks : task_bind(t)
    \/ \E t \in tasks : task_crash(t)
    \/ \E t \in tasks : task_cancel(t)
    \/ \E valid \in BOOLEAN : EditLibrary(AppRepo, valid)
    \/ file_change(IndexEvent(AppRepo))
    \/ \E r \in BagToSet(reloads) : reloadAgentLibrary(r)

SpecIsolation == InitIsolation /\ [][NextIsolation]_vars

\* ==================================================================
\* The JSON-RPC engine of one server instance
\* ==================================================================
MethodNotFound == -32601
InvalidParams == -32602
InvalidRequest == -32600

\* JsonRpcRequest { jsonrpc, id, method, params }; id and params are Options
Methods == {"initialize", "prompts/list", "prompts/get", "invalid/method", "tools/list"}

Routed == {"initialize", "prompts/list", "prompts/get"}

Requests ==
    [jsonrpc : {"2.0", "1.0"}, id : {{}, {"id1"}}, method : Methods,
     params : {{}, {[name |-> "p1"]}, {[name |-> "p2"]}, {[name |-> "p9"]}, {[arguments |-> "a"]}}]

\* JsonRpcError { code, message, data: None }
JsonRpcError(code, message) == [code |-> code, message |-> message]

\* JsonRpcResponse { jsonrpc: "2.0", id: request.id, result, error }
Answer(req, result) == [jsonrpc |-> "2.0", id |-> req.id, result |-> {result}, error |-> {}]

\* mutant: an error response carries no id
Failure_null_id(req, error) == [jsonrpc |-> "2.0", id |-> {}, result |-> {}, error |-> {error}]

Failure(req, error) == [jsonrpc |-> "2.0", id |-> req.id, result |-> {}, error |-> {error}]

\* the response leaves the server
Respond(h, req, response) ==
    {[caller |-> h, op |-> "rpc", id |-> {}, result |-> response, request |-> req]}

\* handle_initialize
InitializeResult ==
    [protocolVersion |-> "2024-11-05",
     capabilities |-> [prompts |-> [listChanged |-> FALSE],
                       resources |-> [subscribe |-> FALSE, listChanged |-> FALSE]],
     serverInfo |-> [name |-> "librarian-mcp-server", version |-> "1.0.0"]]

\* for library in libraries.iter() { for prompt in &library.prompts { ... } }
RECURSIVE Flatten(_)
Flatten(libraries) ==
    IF libraries = <<>> THEN <<>>
    ELSE Head(libraries).prompts \o Flatten(Tail(libraries))

\* handle_prompts_list: name and description of every prompt, in order
PromptsListResult(libraries) ==
    [prompts |-> [i \in DOMAIN Flatten(libraries) |->
                    [name |-> Flatten(libraries)[i].name,
                     description |-> Flatten(libraries)[i].description]]]

\* the first prompt whose name is the one asked for, if any
FindPrompt(libraries, name) ==
    LET ps == Flatten(libraries)
        hits == {i \in DOMAIN ps : ps[i].name = name}
    IN IF hits = {} THEN {} ELSE {ps[CHOOSE i \in hits : \A j \in hits : i <= j]}

\* mutant: the message is attributed to the assistant
PromptsGetResult_assistant(description, content) ==
    [description |-> description,
     messages |-> <<[role |-> "assistant", content |-> [type |-> "text", text |-> content]]>>]

\* handle_prompts_get: the description and one user message with the content
PromptsGetResult(description, content) ==
    [description |-> description,
     messages |-> <<[role |-> "user", content |-> [type |-> "text", text |-> content]]>>]

\* mutant: the message does not say which prompt was asked for
PromptNotFound_anonymous(name) == JsonRpcError(InvalidParams, <<"Prompt", "not found">>)

\* format!("Prompt '{}' not found", params.name)
PromptNotFound(name) == JsonRpcError(InvalidParams, <<"Prompt", name, "not found">>)

\* params deserialises into PromptsGetParams { name: String, arguments }
HasName(params) == \A q \in params : "name" \in DOMAIN q

\* serde_json::from_value(..)? fails: the error converted into a JsonRpcError
from_value_error == JsonRpcError(InvalidParams, "Invalid params")

\* the listener task of the repository accepts requests
Serving(id) == \E t \in tasks : t.repo = id /\ t.st = "serving"

\* mutant: unknown methods are answered as safe_handle_request does, with -32602
dispatch_unknown_invalid(req) == Failure(req, JsonRpcError(InvalidParams, "Unknown method"))

\* the arm `_` of the match on request.method
dispatch_unknown(req) == Failure(req, JsonRpcError(MethodNotFound, "Method not found"))

\* handle_jsonrpc of the instance of AppRepo receives a request: the match on
\* request.method answers at once, or the handler of the method takes the read
\* guard of the snapshot (state.agent_libraries.read().await)
handle_jsonrpc(h, req) ==
    /\ handlers[h].pc = "idle"
    /\ Serving(AppRepo)
    /\ CASE req.method = "initialize" ->
              /\ ret' = Respond(h, req, Answer(req, InitializeResult))
              /\ UNCHANGED <<handlers, readers>>
         [] req.method = "prompts/list" ->
              /\ handlers' = [handlers EXCEPT ![h] = [IdleHandler EXCEPT !.pc = "list", !.req = {req}]]
              /\ readers' = [readers EXCEPT ![AppRepo] = @ \cup {h}]
              /\ ret' = {}
         [] req.method = "prompts/get" ->
              IF req.params = {}
              THEN /\ ret' = Respond(h, req, Failure(req, JsonRpcError(InvalidParams, "Invalid params")))
                   /\ UNCHANGED <<handlers, readers>>
              ELSE IF ~HasName(req.params)
              THEN /\ ret' = Respond(h, req, Failure(req, from_value_error))
                   /\ UNCHANGED <<handlers, readers>>
              ELSE /\ handlers' = [handlers EXCEPT ![h] = [IdleHandler EXCEPT !.pc = "get", !.req = {req}]]
                   /\ readers' = [readers EXCEPT ![AppRepo] = @ \cup {h}]
                   /\ ret' = {}
         [] OTHER ->
              /\ ret' = Respond(h, req, dispatch_unknown(req))
              /\ UNCHANGED <<handlers, readers>>
    /\ rival' = Settle
    /\ UNCHANGED <<servers, tasks, lock, call, extAll, repositories>>
    /\ UNCHANGED <<agent_libraries, watchVars, appConfig, uiVars>>

RequestOf(h) == CHOOSE req \in handlers[h].req : TRUE

\* params.name
NameIn(params) == (CHOOSE q \in params : TRUE).name

\* handle_prompts_list under the read guard: the list is built, the guard dropped
handle_prompts_list(h) ==
    /\ handlers[h].pc = "list"
    /\ ret' = Respond(h, RequestOf(h), Answer(RequestOf(h), PromptsListResult(agent_libraries[AppRepo])))
    /\ handlers' = [handlers EXCEPT ![h] = IdleHandler]
    /\ readers' = [readers EXCEPT ![AppRepo] = @ \ {h}]
    /\ rival' = Settle
    /\ UNCHANGED <<servers, tasks, lock, call, extAll, repositories>>
    /\ UNCHANGED <<agent_libraries, watchVars, appConfig, uiVars>>

\* mutant: the read guard is dropped once the prompt is found and taken again to
\* read its content
get_find_guard_dropped(h) == [readers EXCEPT ![AppRepo] = @ \ {h}]

\* the read guard is held until the result is built
get_find_guard(h) == readers

\* handle_prompts_get under the read guard: the loop looks for prompt.name ==
\* params.name and clones its description; without a hit the error is returned
handle_prompts_get_find(h) ==
    /\ handlers[h].pc = "get"
    /\ LET req == RequestOf(h)
           name == (CHOOSE q \in req.params : TRUE).name
           hit == FindPrompt(agent_libraries[AppRepo], name)
       IN IF hit = {}
          THEN /\ ret' = Respond(h, req, Failure(req, PromptNotFound(name)))
               /\ handlers' = [handlers EXCEPT ![h] = IdleHandler]
               /\ readers' = [readers EXCEPT ![AppRepo] = @ \ {h}]
          ELSE /\ ret' = {}
               /\ handlers' = [handlers EXCEPT ![h].pc = "build",
                                               ![h].description = {(CHOOSE q \in hit : TRUE).description}]
               /\ readers' = get_find_guard(h)
    /\ rival' = Settle
    /\ UNCHANGED <<servers, tasks, lock, call, extAll, repositories>>
    /\ UNCHANGED <<agent_libraries, watchVars, appConfig, uiVars>>

\* the content of the prompt is cloned into the message, the result returned and
\* the guard dropped
handle_prompts_get_build(h) ==
    /\ handlers[h].pc = "build"
    /\ LET req == RequestOf(h)
           name == (CHOOSE q \in req.params : TRUE).name
           hit == FindPrompt(agent_libraries[AppRepo], name)
       IN ret' = Respond(h, req,
                    IF hit = {} THEN Failure(req, PromptNotFound(name))
                    ELSE Answer(req, PromptsGetResult(CHOOSE d \in handlers[h].description : TRUE,
                                                      (CHOOSE q \in hit : TRUE).content)))
    /\ handlers' = [handlers EXCEPT ![h] = IdleHandler]
    /\ readers' = [readers EXCEPT ![AppRepo] = @ \ {h}]
    /\ rival' = Settle
    /\ UNCHANGED <<servers, tasks, lock, call, extAll, repositories>>
    /\ UNCHANGED <<agent_libraries, watchVars, appConfig, uiVars>>

\* The server of AppRepo is up and serves the library as it was parsed at its
\* start; clients send requests while the library is edited and reloaded.
InitRpc ==
    /\ servers = [id \in {AppRepo} |-> McpServerHandle(PortMin, RepoPath(id))]
    /\ tasks = {[Task(AppRepo, PortMin) EXCEPT !.st = "serving"]}
    /\ lock = {}
    /\ call = [c \in Callers |-> IdleCall]
    /\ ret = {}
    /\ rival = [c \in Callers |-> {}]
    /\ extAll = FALSE
    /\ repositories = {}
    /\ agent_libraries = [id \in Repos |-> IF id = AppRepo THEN <<AgentLibrary(0)>> ELSE <<>>]
    /\ readers = [id \in Repos |-> {}]
    /\ handlers = [h \in Clients |-> IdleHandler]
    /\ disk = [id \in Repos |-> [ver |-> 0, valid |-> TRUE]]
    /\ subscribers = EmptyBag
    /\ autoReloadEnabled = TRUE
    /\ reloads = EmptyBag
    /\ notification = {}
    /\ window = {}
    /\ appConfig = DefaultConfig
    /\ InitUi

\* the well-formed requests that read the snapshot
LibraryRequests ==
    {req \in Requests :
        /\ req.jsonrpc = "2.0" /\ req.id = {"id1"}
        /\ \/ req.method = "prompts/list" /\ req.params = {}
           \/ req.method = "prompts/get" /\ req.params # {} /\ HasName(req.params)}

NextRpc ==
    \/ \E h \in Clients, req \in LibraryRequests : handle_jsonrpc(h, req)
    \/ \E h \in Clients : handle_prompts_list(h)
    \/ \E h \in Clients : handle_prompts_get_find(h)
    \/ \E h \in Clients : handle_prompts_get_build(h)
    \/ \E valid \in BOOLEAN : EditLibrary(AppRepo, valid)
    \/ file_change(IndexEvent(AppRepo))
    \/ \E r \in BagToSet(reloads) : reloadAgentLibrary(r)

SpecRpc == InitRpc /\ [][NextRpc]_vars

\* One client sends every kind of request to the server of AppRepo.
DispatchClient == "h1"

NextDispatch ==
    \/ \E req \in Requests : handle_jsonrpc(DispatchClient, req)
    \/ handle_prompts_list(DispatchClient)
    \/ handle_prompts_get_find(DispatchClient)
    \/ handle_prompts_get_build(DispatchClient)

SpecDispatch == InitRpc /\ [][NextDispatch]_vars

\* The server of AppRepo was started when some version of its valid library was on
\* disk and serves the snapshot parsed from it; one client sends every kind of
\* request.
InitEngine ==
    /\ servers = [id \in {AppRepo} |-> McpServerHandle(PortMin, RepoPath(id))]
    /\ tasks = {[Task(AppRepo, PortMin) EXCEPT !.st = "serving"]}
    /\ lock = {}
    /\ call = [c \in Callers |-> IdleCall]
    /\ ret = {}
    /\ rival = [c \in Callers |-> {}]
    /\ extAll = FALSE
    /\ repositories = {}
    /\ \E v \in 0..MaxVersion :
          /\ disk = [id \in Repos |-> [ver |-> IF id = AppRepo THEN v ELSE 0, valid |-> TRUE]]
          /\ agent_libraries = [id \in Repos |-> IF id = AppRepo THEN <<AgentLibrary(v)>> ELSE <<>>]
    /\ readers = [id \in Repos |-> {}]
    /\ handlers = [h \in Clients |-> IdleHandler]
    /\ subscribers = EmptyBag
    /\ autoReloadEnabled = TRUE
    /\ reloads = EmptyBag
    /\ notification = {}
    /\ window = {}
    /\ appConfig = DefaultConfig
    /\ InitUi

SpecEngine == InitEngine /\ [][NextDispatch]_vars

\* ------------------------------------------------------------ the watcher
\* The server of AppRepo is up, the other repository has none. The watcher reports
\* changes of any file of either repository; the library of AppRepo is edited,
\* automatic reloading is switched and the reload calls are served.
FileChangeEvents == UNION {{FileChangeEvent(id, path) : path \in FilePaths(id)} : id \in Repos}

NextWatch ==
    \/ \E valid \in BOOLEAN : EditLibrary(AppRepo, valid)
    \/ \E event \in FileChangeEvents : file_change(event)
    \/ toggleAutoReload
    \/ Elapse
    \/ \E r \in BagToSet(reloads) : reloadAgentLibrary(r)

SpecWatch == InitRpc /\ [][NextWatch]_vars

\* ------------------------------------------------------------ the listener
\* FileWatcherAPI keeps the unlisten function of the 'file-change' listener it
\* registered in the static field eventListener. A call of initializeEventListener
\* is suspended at `await listen(..)`; the listener is registered when the await
\* resolves. Calls and listeners are numbered from 1.
MaxListeners == 2

\* the number of the next call: the least one no listener and no suspended call has
NextListener ==
    {k \in 1..MaxListeners :
        /\ k \notin listeners \cup {a.k : a \in Awaiting("initializeEventListener")}
        /\ \A j \in 1..(k - 1) : j \in listeners \cup {a.k : a \in Awaiting("initializeEventListener")}}

\* initializeEventListener up to its await: if (this.eventListener) return; otherwise
\* listen('file-change', handler) is called
initializeEventListener ==
    /\ IF eventListener # {}
       THEN awaits' = awaits
       ELSE \E k \in NextListener :
               awaits' = awaits \cup {[fn |-> "initializeEventListener", k |-> k]}
    /\ ret' = {}
    /\ rival' = Settle
    /\ UNCHANGED <<servers, tasks, lock, call, extAll, repositories>>
    /\ UNCHANGED <<agent_libraries, rpcVars, watchVars, appConfig>>
    /\ UNCHANGED <<selectedRepository, toolbar, eventListener, listeners>>

\* initializeEventListener after its await: the listener is registered and
\* this.eventListener = unlisten; a rejection of listen is logged
initializeEventListener_returns(a, ok) ==
    /\ a \in Awaiting("initializeEventListener")
    /\ awaits' = awaits \ {a}
    /\ IF ok
       THEN /\ listeners' = listeners \cup {a.k}
            /\ eventListener' = {a.k}
       ELSE UNCHANGED <<listeners, eventListener>>
    /\ ret' = {}
    /\ rival' = Settle
    /\ UNCHANGED <<servers, tasks, lock, call, extAll, repositories>>
    /\ UNCHANGED <<agent_libraries, rpcVars, watchVars, appConfig, selectedRepository, toolbar>>

\* destroyEventListener: if (this.eventListener) { this.eventListener();
\* this.eventListener = null; }
destroyEventListener ==
    /\ listeners' = listeners \ eventListener
    /\ eventListener' = {}
    /\ ret' = {}
    /\ rival' = Settle
    /\ UNCHANGED <<servers, tasks, lock, call, extAll, repositories>>
    /\ UNCHANGED <<agent_libraries, rpcVars, watchVars, appConfig>>
    /\ UNCHANGED <<selectedRepository, toolbar, awaits>>

\* the backend emits 'file-change': the event system calls every registered
\* listener with the event, each of which does what file_change does
emit_file_change(event) ==
    LET n == Cardinality(listeners)
        times(x) == [y \in {x} |-> n]
    IN /\ n > 0
       /\ BagCardinality(subscribers) + n <= MaxEvents
       /\ subscribers' = subscribers (+) times(Subscription(event))
       /\ IF autoReloadEnabled /\ shouldAutoReload(event)
          THEN /\ BagCardinality(reloads) + n <= MaxPending
               /\ reloads' = reloads (+) times(ReloadCall(event))
          ELSE reloads' = reloads
       /\ notification' = IF shouldAutoReload(event) THEN {Info(event.repository_id)}
                          ELSE notification
       /\ window' = IF shouldAutoReload(event) THEN window \cup {event.repository_id} ELSE window
       /\ ret' = Logged(event)
       /\ rival' = Settle
       /\ UNCHANGED <<servers, tasks, lock, call, extAll, repositories>>
       /\ UNCHANGED <<agent_libraries, rpcVars, disk, autoReloadEnabled, appConfig, uiVars>>

\* The server of AppRepo is up. The repository list is mounted and destroyed, any
\* number of times and without waiting for a mount to finish; the watcher reports
\* changes of the files of the repositories and the reload calls are served.
NextListen ==
    \/ initializeEventListener
    \/ \E a \in awaits, ok \in BOOLEAN : initializeEventListener_returns(a, ok)
    \/ destroyEventListener
    \/ \E event \in FileChangeEvents : emit_file_change(event)
    \/ \E r \in BagToSet(reloads) : reloadAgentLibrary(r)

SpecListen == InitRpc /\ [][NextListen]_vars

\* ------------------------------------------------------------ refresh, live
\* The server of AppRepo is up. A prompt file of its library is edited and the
\* watcher reports it; one client keeps asking for the prompt. The runtime
\* schedules every handler that is ready; the reload command gets the write guard
\* although readers come and go (the RwLock of tokio is fair to writers).
PromptEvent(id) ==
    FileChangeEvent(id, RepoRoot(id) \o AgentLibraryDir \o <<"/", "prompt", ".md">>)

PromptRequests ==
    {req \in LibraryRequests : req.method = "prompts/get" /\ NameIn(req.params) = "p1"}

NextLive ==
    \/ \E valid \in BOOLEAN : EditLibrary(AppRepo, valid)
    \/ file_change(PromptEvent(AppRepo))
    \/ toggleAutoReload
    \/ \E r \in BagToSet(reloads) : reloadAgentLibrary(r)
    \/ \E req \in PromptRequests : handle_jsonrpc(DispatchClient, req)
    \/ handle_prompts_get_find(DispatchClient)
    \/ handle_prompts_get_build(DispatchClient)

FairLive ==
    /\ WF_vars(handle_prompts_get_find(DispatchClient))
    /\ WF_vars(handle_prompts_get_build(DispatchClient))
    /\ SF_vars(reloadAgentLibrary(ReloadCall(PromptEvent(AppRepo))))

SpecLive == InitRpc /\ [][NextLive]_vars /\ FairLive

\* ==================================================================
\* Properties
\* ==================================================================
Stepped(c) == call'[c] # call[c]

AtStartLock(c) == call[c].op = "start" /\ call[c].pc = "lock"
AtStop(c) == call[c].op = "stop" /\ call[c].pc = "lock"

C4_DistinctPorts ==
    \A a, b \in DOMAIN servers :
        (a # b /\ TaskLive(Handle(a)) /\ TaskLive(Handle(b))) =>
            servers[a].port # servers[b].port

\* C5 as claimed: every port the application records lies in 9500..9599: the port
\* of a registry entry, of a listener task, of a start in progress, and the port
\* assigned to a repository when it is registered.
C5_PortsInRange ==
    /\ \A id \in DOMAIN servers : servers[id].port \in PortRange
    /\ \A t \in tasks : t.port \in PortRange
    /\ \A c \in Callers : call[c].port \subseteq PortRange
    /\ repositories \subseteq PortRange

\* C6 as claimed: when stop returns Ok the repository is not reported running, has
\* no registry entry, and the listener of the stopped instance no longer holds the
\* port.
C6_StopReleasesPort ==
    [][\A c \in Callers, id \in Repos :
          (AtStop(c) /\ Stepped(c) /\ call[c].id = {id} /\ ret' = Response(c, ServerStopped)) =>
              /\ ~StatusRunning(id)'
              /\ ~contains_key(id)'
              /\ ~\E t \in tasks' : t.repo = id /\ t.st = "serving"
                                     /\ t.port = servers[id].port]_vars

C8_ParseFailure ==
    [][\A c \in Callers, id \in Repos :
          (call[c].pc = "parse" /\ Stepped(c) /\ call[c].id = {id} /\ ret' = Response(c, ParseError)) =>
              /\ call[c].port # {}
              /\ servers' = servers
              /\ tasks' = tasks
              /\ ~contains_key(id)'
              /\ ~StatusRunning(id)'
              /\ lock' = {}]_vars

\* C8 as claimed: no port was allocated or probed when the parse fails
C8_NoPortProbed ==
    [][\A c \in Callers, id \in Repos :
          (call[c].pc = "parse" /\ Stepped(c) /\ call[c].id = {id} /\ ret' = Response(c, ParseError)) =>
              /\ call[c].port = {}
              /\ servers' = servers
              /\ tasks' = tasks
              /\ ~StatusRunning(id)']_vars

\* a start failed on the parse while another repository is served
C8_Witness ==
    \E r \in ret :
        /\ r.op = "start" /\ r.result = ParseError
        /\ \A id \in r.id : ~contains_key(id)
        /\ \E t \in tasks : TaskLive(t)

\* C9: when every port of 9500..9599 is unavailable, the start that reaches the
\* probe returns the "No available ports" error, spawns and registers nothing,
\* leaves the repository not reported running, releases the lock and ends: nothing
\* is retried until the frontend invokes start again.
C9_PortExhausted ==
    [][\A c \in Callers, id \in Repos :
          (call[c].pc = "find_port" /\ Stepped(c) /\ call[c].id = {id} /\ \A p \in PortRange : PortBound(p)) =>
              /\ ret' = Response(c, NoAvailablePorts)
              /\ call'[c] = IdleCall
              /\ servers' = servers
              /\ tasks' = tasks
              /\ ~contains_key(id)'
              /\ ~StatusRunning(id)'
              /\ lock' = {}]_vars

\* a start failed on exhaustion of the range
C9_Witness ==
    \E r \in ret :
        /\ r.op = "start" /\ r.result = NoAvailablePorts
        /\ \A p \in PortRange : PortBound(p)
        /\ \A id \in r.id : ~StatusRunning(id)

\* C10 as claimed: a crashed instance is not reported running, and a start issued
\* after the crash discards it and starts fresh instead of answering "already
\* running".
C10_StartAfterCrash ==
    [][/\ \A id \in DOMAIN servers : Handle(id).st = "ended" => ~StatusRunning(id)
       /\ \A c \in Callers, id \in Repos :
             (AtStartLock(c) /\ Stepped(c) /\ call[c].id = {id} /\ contains_key(id)
                 /\ Handle(id).st = "ended") =>
                 /\ ret' # Response(c, ServerAlreadyRunning)
                 /\ call'[c].pc = "find_port"]_vars


\* C11: no automatic restart. A repository whose server is not running (in
\* particular one whose listener task has ended with an error) is reported as
\* running again only by the step of an explicit start command that registers a new
\* listener task for it; no status query, file-change event, reload or store
\* synchronisation makes it running.
C11_NoAutomaticRestart ==
    [][\A id \in Repos :
         (~StatusRunning(id) /\ StatusRunning(id)') =>
             \E c \in Callers : /\ call[c].op = "start" /\ call[c].id = {id}
                                /\ call[c].pc = "parse" /\ Stepped(c)]_vars

\* the server of the repository has ended with an error, a file-change event was
\* received, the store was synchronised while it ran and a status query has just
\* reported the server as not running
C11_Witness ==
    /\ contains_key(AppRepo) /\ is_finished(Handle(AppRepo))
    /\ BagCardinality(subscribers) > 0
    /\ \E r \in find(appConfig.repositories, AppRepo) :
           \E m \in r.mcp_server : m.status = "running"
    /\ \E r \in ret : r.op = "status" /\ ~StatusRunning(AppRepo)

\* what is registered, listening and served for a repository
InstanceOf(id) ==
    [entry |-> IF contains_key(id) THEN {servers[id]} ELSE {},
     listeners |-> {t \in tasks : t.repo = id},
     snapshot |-> agent_libraries[id]]

\* a start of the repository returns an error
FailedStart(id) ==
    \E c \in Callers :
        /\ call[c].op = "start" /\ call[c].id = {id} /\ Stepped(c)
        /\ \E r \in ret' : r.caller = c /\ r.result \in {ParseError, NoAvailablePorts}

\* a stop of the repository takes its step under the write guard
Stopping(id) == \E c \in Callers : AtStop(c) /\ call[c].id = {id} /\ Stepped(c)

\* a listener task of the repository fails to bind, crashes or is cancelled
ListenerChange(id) ==
    /\ call' = call
    /\ {t \in tasks : t.repo = id} # {t \in tasks' : t.repo = id}

\* a reload of the repository reports a parse failure
FailedReload(id) == \E r \in ret' : r.op = "reload" /\ r.id = {id} /\ r.result = "Err"

\* C12: isolation. A failed start, a stop, a change of a listener task (bind
\* failure, crash, cancellation) or a failed reload of one repository leaves the
\* registry entry, the listener tasks and the served snapshot of every other
\* repository as they were.
C12_Isolation ==
    [][\A a \in Repos : \A b \in Repos \ {a} :
         (FailedStart(a) \/ Stopping(a) \/ ListenerChange(a) \/ FailedReload(a)) =>
             InstanceOf(b)' = InstanceOf(b)]_vars

\* a reload of one repository has just failed while the server of the other one
\* is registered on its port, listening, and serves its snapshot
C12_Witness ==
    /\ \E r \in ret : r.op = "reload" /\ r.id = {AppRepo} /\ r.result = "Err"
    /\ contains_key(Bystander) /\ servers[Bystander].port = PortMin
    /\ TaskLive(Handle(Bystander))
    /\ agent_libraries[Bystander] = <<AgentLibrary(0)>>

\* the responses that carry a result for the given method
Results(method) ==
    {r \in ret : r.op = "rpc" /\ r.request.method = method /\ r.result.result # {}}

ResultOf(r) == CHOOSE x \in r.result.result : TRUE

NameOf(r) == (CHOOSE q \in r.request.params : TRUE).name

\* C13: no torn read. Every result of prompts/list and of prompts/get is computed
\* from one snapshot: there is a version v of the library such that the whole result
\* is what that version yields, also when the library is reloaded while the handler
\* runs.
C13_NoTornRead ==
    /\ \A r \in Results("prompts/list") :
           \E v \in 0..MaxVersion : ResultOf(r) = PromptsListResult(<<AgentLibrary(v)>>)
    /\ \A r \in Results("prompts/get") :
           \E v \in 0..MaxVersion :
               ResultOf(r) = PromptsGetResult(Prompt(NameOf(r), v).description,
                                              Prompt(NameOf(r), v).content)

\* prompts/get has just answered from the snapshot of version 0 while a reload of
\* an edited, valid library was waiting for the write guard
C13_Witness ==
    /\ \E r \in Results("prompts/get") :
           ResultOf(r) = PromptsGetResult(Prompt(NameOf(r), 0).description,
                                          Prompt(NameOf(r), 0).content)
    /\ BagCardinality(reloads) > 0
    /\ disk[AppRepo].ver > 0 /\ disk[AppRepo].valid
    /\ agent_libraries[AppRepo] = <<AgentLibrary(0)>>

\* the listener handles the event in this step
ListenerStep(event) == ret' = Logged(event)

\* C14: debounce. A matching file-change event that arrives while the debounce
\* window of its repository is still open (an earlier matching event of the burst
\* opened it) triggers no reparse of its own: the burst is coalesced into the one
\* reparse that follows its last event.
C14_OneReparsePerBurst ==
    [][\A event \in FileChangeEvents :
         (/\ shouldAutoReload(event)
          /\ event.repository_id \in window
          /\ ListenerStep(event)) => reloads' = reloads]_vars

\* the path lies under the .agent_library directory of the repository of the event
UnderAgentLibrary(event) ==
    LET prefix == RepoRoot(event.repository_id) \o AgentLibraryDir \o <<"/">>
    IN /\ Len(event.file_path) > Len(prefix)
       /\ SubSeq(event.file_path, 1, Len(prefix)) = prefix

\* the pieces of the path after its last separator
FileName(path) ==
    LET seps == {i \in DOMAIN path : path[i] = "/"}
        last == CHOOSE i \in seps : \A j \in seps : j <= i
    IN SubSeq(path, last + 1, Len(path))

\* the file is the index file or has the markdown extension
IndexOrMarkdown(path) ==
    \/ FileName(path) \in {<<"agent_index", ".yml">>, <<"agent_index", ".yaml">>}
    \/ Len(FileName(path)) > 1 /\ toLowerCase(FileName(path))[Len(FileName(path))] = ".md"

\* C15: a file-change event whose path is not under the .agent_library directory of
\* its repository, or whose file is neither the index file nor a markdown file,
\* triggers no reload: the step that handles it invokes nothing.
C15_OtherFilesIgnored ==
    [][\A event \in FileChangeEvents :
         (/\ ~(UnderAgentLibrary(event) /\ IndexOrMarkdown(event.file_path))
          /\ ListenerStep(event)) => reloads' = reloads]_vars

\* C16: a reload whose parse fails leaves the snapshot served by the running
\* instance, its registry entry (the port) and its listener task as they were; the
\* failure is reported to the user as a notification and nothing else happens.
C16_FailedReloadKeepsServing ==
    [][\A id \in Repos :
         FailedReload(id) =>
             /\ agent_libraries' = agent_libraries
             /\ servers' = servers
             /\ tasks' = tasks
             /\ notification' = {Error(id)}]_vars

\* the reload of the edited, now invalid library of the running server has just
\* failed: the server still serves version 0 on its port and the failure is shown
C16_Witness ==
    /\ \E r \in ret : r.op = "reload" /\ r.id = {AppRepo} /\ r.result = "Err"
    /\ ~disk[AppRepo].valid /\ disk[AppRepo].ver > 0
    /\ Serving(AppRepo) /\ servers[AppRepo].port = PortMin
    /\ agent_libraries[AppRepo] = <<AgentLibrary(0)>>
    /\ notification = {Error(AppRepo)}

\* C17: handling a file-change event (the listener step and the reload it invokes)
\* never starts or stops a server: the registry and the listener tasks are
\* unchanged, and for a repository without a server nothing is refreshed.
C17_RefreshNeverStartsOrStops ==
    [][((\E event \in FileChangeEvents : ListenerStep(event)) \/ (\E r \in ret' : r.op = "reload")) =>
           /\ servers' = servers
           /\ tasks' = tasks
           /\ \A id \in Repos : ~contains_key(id) => agent_libraries'[id] = agent_libraries[id]]_vars

\* the reload for the repository that has no server has just been consumed, while
\* the server of the other repository keeps serving
C17_Witness ==
    /\ \E r \in ret : r.op = "reload" /\ r.id = {Bystander} /\ r.result = "Ok"
    /\ ~contains_key(Bystander) /\ agent_libraries[Bystander] = <<>>
    /\ Serving(AppRepo)

\* the listener has just handled a matching event for AppRepo while version v of
\* its library was on disk
EventDelivered(v) ==
    /\ \E r \in ret : r.op = "file-change" /\ r.id = {AppRepo} /\ shouldAutoReload(r.result)
    /\ disk[AppRepo].ver = v

\* the served snapshot was parsed from version v of the library or a later one
ServedAtLeast(v) ==
    \E w \in v..MaxVersion : agent_libraries[AppRepo] = <<AgentLibrary(w)>>

\* every request that was received is answered
AllAnswered == (handlers[DispatchClient].pc # "idle") ~> (handlers[DispatchClient].pc = "idle")

KnownMethods == Routed \cup {"resources/list", "resources/read"}

RpcResponses == {r \in ret : r.op = "rpc"}

C20_InvalidRequest ==
    /\ \A r \in RpcResponses :
           r.request.jsonrpc # "2.0" =>
               /\ r.result.result = {}
               /\ \E e \in r.result.error : e.code = InvalidRequest
    /\ \A h \in Clients : \A req \in handlers[h].req : req.jsonrpc = "2.0"

\* ------------------------------------------------ stopping a listener
\* Two callers start and stop the server of one repository. The commands run to
\* their end once invoked: a command that holds the lock takes its next step, and
\* the lock (tokio's RwLock queues its waiters) is granted to a waiting stop. The
\* listener tasks are under no obligation: a task whose abort was requested may
\* never reach a yield point. A start is invoked only while a further task fits.
StartsInFlight == {d \in Callers : call[d].op = "start" /\ InFlight(d)}

NextStop ==
    \/ \E c \in Callers :
          /\ Cardinality(tasks) + Cardinality(StartsInFlight) < MaxTasks
          /\ InvokeStart(c, AppRepo)
    \/ \E c \in Callers : InvokeStop(c, AppRepo)
    \/ \E c \in Callers : start_lock(c)
    \/ \E c \in Callers : start_find_port(c)
    \/ \E c \in Callers : \E id \in call[c].id : start_parse_spawn(c, ParseOf(id))
    \/ \E c \in Callers : stop_repository_mcp_server(c)
    \/ \E t \in tasks : task_bind(t)
    \/ \E t \in tasks : task_crash(t)
    \/ \E t \in tasks : task_cancel(t)

FairStop ==
    \A c \in Callers :
        /\ WF_vars(start_find_port(c))
        /\ WF_vars(\E id \in call[c].id : start_parse_spawn(c, ParseOf(id)))
        /\ SF_vars(stop_repository_mcp_server(c))

SpecStop == Init /\ [][NextStop]_vars /\ FairStop

\* C21: every response echoes the id of its request and carries exactly one of
\* result and error.
C21_ResponseShape ==
    \A r \in RpcResponses :
        /\ r.result.id = r.request.id
        /\ Cardinality(r.result.result) + Cardinality(r.result.error) = 1

\* prompts/get with id "id1" has just been answered with an error from a snapshot
\* without prompts
C21_Witness ==
    /\ Flatten(agent_libraries[AppRepo]) = <<>>
    /\ \E r \in RpcResponses :
           /\ r.request.method = "prompts/get" /\ r.request.id = {"id1"}
           /\ r.result.error # {} /\ r.result.id = {"id1"}

\* the prompts of the snapshot the instance of AppRepo serves
Snapshot == Flatten(agent_libraries[AppRepo])

NamedGets ==
    {r \in RpcResponses : /\ r.request.method = "prompts/get"
                          /\ r.request.params # {}
                          /\ HasName(r.request.params)}

\* C22: prompts/get of a name that is in the snapshot succeeds and returns the
\* description of that prompt and exactly one message, of role user, whose text is
\* the content of that prompt; every name prompts/list returns is in the snapshot,
\* so it can be fetched.
C22_RoundTrip ==
    /\ \A r \in NamedGets :
           \A i \in DOMAIN Snapshot :
               Snapshot[i].name = NameOf(r) =>
                   /\ r.result.error = {}
                   /\ r.result.result # {}
                   /\ ResultOf(r).description = Snapshot[i].description
                   /\ ResultOf(r).messages =
                          <<[role |-> "user",
                             content |-> [type |-> "text", text |-> Snapshot[i].content]]>>
    /\ \A r \in Results("prompts/list") :
           \A i \in DOMAIN ResultOf(r).prompts :
               \E j \in DOMAIN Snapshot : Snapshot[j].name = ResultOf(r).prompts[i].name

\* the second prompt of a two-prompt snapshot has just been fetched
C22_Witness ==
    /\ Len(Snapshot) = 2
    /\ \E r \in NamedGets : NameOf(r) = Snapshot[2].name /\ r.result.result # {}

GetResponses == {r \in RpcResponses : r.request.method = "prompts/get"}

\* the request names a prompt that the snapshot does not hold
UnknownName(r) ==
    /\ r \in NamedGets
    /\ \A i \in DOMAIN Snapshot : Snapshot[i].name # NameOf(r)

Declared == Endpoints(disk[AppRepo].ver)

Present(e) == e.exists

IdsOf(endpoints) == [i \in DOMAIN endpoints |-> endpoints[i].id]

ListedNames(r) == [i \in DOMAIN ResultOf(r).prompts |-> ResultOf(r).prompts[i].name]

ListResponses == {r \in RpcResponses : r.request.method = "prompts/list"}

\* C24 as stated: prompts/list returns one entry per prompt the index declares, in
\* declared order, without duplicates or omissions, and an empty list, not an
\* error, when there are none.
C24_OnePerDeclared ==
    \A r \in ListResponses :
        /\ r.result.error = {}
        /\ r.result.result # {}
        /\ ListedNames(r) = IdsOf(Declared)

\* C24 amended: prompts/list returns one entry per declared prompt whose markdown
\* file existed when the library was parsed, in declared order, without
\* duplicates; declared prompts whose file is missing are omitted; the list is
\* empty, not an error, when no prompt is left.
C24_OnePerDeclaredFile ==
    \A r \in ListResponses :
        /\ r.result.error = {}
        /\ r.result.result # {}
        /\ ListedNames(r) = IdsOf(SelectSeq(Declared, Present))

\* the index declares two prompts, the file of one is missing, and prompts/list
\* has just answered
C24_Witness ==
    /\ Len(Declared) = 2
    /\ \E i \in DOMAIN Declared : ~Declared[i].exists
    /\ \E r \in ListResponses : Len(ListedNames(r)) = 1

\* prompts/list has just answered with the empty list
C24_EmptyWitness ==
    \E r \in ListResponses : r.result.result # {} /\ ListedNames(r) = <<>>

StatusResults == {r \in ret : r.op = "status"}

\* C25: get_server_status has no side effects: the step that answers it leaves the
\* registry map, every listener task (state and port) and every snapshot as they
\* were, also when an entry holds a finished task; a status call that directly
\* follows a status call returns the same list.
C25_StatusIsPure ==
    [][(\E r \in ret' : r.op = "status") =>
          /\ servers' = servers
          /\ tasks' = tasks
          /\ agent_libraries' = agent_libraries
          /\ lock' = lock
          /\ \A r \in StatusResults : \A q \in ret' : q.op = "status" => q.result = r.result]_vars

\* status has just answered while the registry holds an entry whose task has
\* finished
C25_Witness ==
    /\ StatusResults # {}
    /\ \E id \in DOMAIN servers : is_finished(Handle(id))

StopPending(c) == call[c].op = "stop" /\ call[c].pc = "lock"

\* the stop of caller c finds the entry of the repository it names
StopOfRunning(c) == StopPending(c) /\ call[c].id \subseteq DOMAIN servers

ListenerBound(id) == Handle(id).st = "serving" /\ Handle(id).port = servers[id].port

\* the bind of the listener task of a registry entry fails
RegisteredBindFails ==
    \E t \in tasks :
        /\ t.held /\ t.st = "spawned"
        /\ \E u \in tasks' : u.held /\ u.repo = t.repo /\ u.port = t.port /\ u.st = "ended"

\* C27: a port that was probed free and is taken before the listener binds it does
\* not surface as a registered instance: no entry that status reports as running
\* is without a bound listener, and the bind of a registered listener never fails
\* (start has retried on another port or returned an error instead).
C27_BindRaceHandled ==
    /\ [](\A id \in DOMAIN servers : StatusRunning(id) => ListenerBound(id))
    /\ [][~RegisteredBindFails]_vars

IsUpdate(i) == i.cmd = "update_repository_mcp_status"

IsStatusQuery(i) == i.cmd = "get_mcp_server_status"

Succeeded(i) == i.ok

\* the calls of updateMcpServerStatus of a run, in order
Updates(r) == SelectSeq(r.invokes, IsUpdate)

Persisted(id, port, status, ok) == Invoked("update_repository_mcp_status", <<id, port, status>>, ok)

\* the answer is an object with a non-empty port and a non-empty status
Reported(reply) == reply.kind = "object" /\ reply.port \notin {{}, {0}} /\ reply.status # {}

\* the port the store has for the repository, 9500 when it has none
ConfiguredPort(config, id) ==
    LET ports == {m.port : m \in UNION {config.repositories[i].mcp_server :
                                           i \in {j \in DOMAIN config.repositories :
                                                     config.repositories[j].id = id}}}
    IN IF ports \in {{}, {0}} THEN 9500 ELSE CHOOSE q \in ports : TRUE

\* the update the claim expects of a synchronisation
ExpectedUpdate(config, id, reply, ok) ==
    IF Reported(reply)
    THEN Persisted(id, CHOOSE q \in reply.port : TRUE, CHOOSE st \in reply.status : TRUE, ok)
    ELSE Persisted(id, ConfiguredPort(config, id), "stopped", ok)

SyncReturns(r) == ret = {} /\ r \in ret' /\ r.caller = "layout" /\ r.op = "sync"

\* C28 as stated: syncRepositoryStateFromTauri resolves and has persisted one
\* status: the reported (port, status) when the answer is an object with both,
\* 'stopped' with the configured port or 9500 in every other case.
C28_AlwaysPersists ==
    [][\A r \in ret' :
          SyncReturns(r) =>
              /\ r.result = "resolved"
              /\ SelectSeq(Updates(r), Succeeded) =
                     <<ExpectedUpdate(appConfig, CHOOSE id \in r.id : TRUE, r.given.reply, TRUE)>>]_vars

\* C28 amended: syncRepositoryStateFromTauri always resolves. Its first update is
\* the one the claim describes. If that update is rejected, or the query threw, it
\* tries to persist 'stopped' with the configured port or 9500, also in place of
\* a reported pair; if that is rejected too, nothing is persisted. The store holds
\* the update that succeeded.
C28_PersistsUnlessRejected ==
    [][\A r \in ret' :
          SyncReturns(r) =>
              LET id == CHOOSE x \in r.id : TRUE
                  reply == r.given.reply
                  fails == r.given.fails
                  stopped(ok) == Persisted(id, ConfiguredPort(appConfig, id), "stopped", ok)
              IN /\ r.result = "resolved"
                 /\ Updates(r) =
                        IF reply.kind = "throws" THEN <<stopped(~fails[1])>>
                        ELSE IF ~fails[1] THEN <<ExpectedUpdate(appConfig, id, reply, TRUE)>>
                        ELSE <<ExpectedUpdate(appConfig, id, reply, FALSE), stopped(~fails[2])>>
                 /\ \A k \in DOMAIN Updates(r) :
                        Updates(r)[k].ok =>
                            \A j \in DOMAIN appConfig'.repositories :
                                appConfig'.repositories[j].id = id =>
                                    appConfig'.repositories[j].mcp_server =
                                        {McpServerConfig(Updates(r)[k].args[2], Updates(r)[k].args[3])}
                 /\ (\A k \in DOMAIN Updates(r) : ~Updates(r)[k].ok) => appConfig' = appConfig]_vars

\* the backend reported a running server for a repository of the store and the
\* synchronisation has stored it
C28_Witness ==
    \E r \in ret :
        /\ r.caller = "layout" /\ r.op = "sync"
        /\ Reported(r.given.reply)
        /\ \E j \in DOMAIN appConfig.repositories :
               /\ {appConfig.repositories[j].id} = r.id
               /\ appConfig.repositories[j].mcp_server =
                      {McpServerConfig(CHOOSE q \in r.given.reply.port : TRUE,
                                       CHOOSE st \in r.given.reply.status : TRUE)}

PeriodicResults == {r \in ret : r.caller = "layout" /\ r.op = "periodic"}

\* the status queries of a run, in order
Queries(r) == SelectSeq(r.invokes, IsStatusQuery)

QueriesFor(r, id) == {k \in DOMAIN Queries(r) : Queries(r)[k].args = <<id>>}

\* the ids of the repositories of a list whose stored status is 'running'
StoredRunning(repos) ==
    {repos[i].id : i \in {j \in DOMAIN repos : \E m \in repos[j].mcp_server : m.status = "running"}}

\* C29: performPeriodicSync asks the backend for the status of exactly the
\* repositories whose stored status is 'running', once each; when none is running it
\* invokes no backend command and returns the array it was given, otherwise it
\* reads the config again and returns a copy of its repository list.
C29_OnlyRunningQueried ==
    \A r \in PeriodicResults :
        /\ \A id \in Repos :
               Cardinality(QueriesFor(r, id)) =
                   IF id \in StoredRunning(r.given.repositories) THEN 1 ELSE 0
        /\ StoredRunning(r.given.repositories) = {} =>
               /\ r.invokes = <<>>
               /\ r.result = [array |-> "given", items |-> r.given.repositories]
        /\ StoredRunning(r.given.repositories) # {} =>
               /\ r.invokes[Len(r.invokes)].cmd = "load_app_config"
               /\ r.result = [array |-> "fresh", items |-> appConfig.repositories]

\* of two stored repositories one was running and one was not, and the periodic
\* synchronisation has asked for the running one only
C29_Witness ==
    \E r \in PeriodicResults :
        /\ Len(r.given.repositories) = 2
        /\ Cardinality(StoredRunning(r.given.repositories)) = 1
        /\ Len(Queries(r)) = 1

\* the periodic synchronisation has returned the array it was given, which holds a
\* repository in error and one without a server config
C29_UntouchedWitness ==
    \E r \in PeriodicResults :
        /\ r.result.array = "given"
        /\ \E i, j \in DOMAIN r.given.repositories :
               /\ r.given.repositories[i].mcp_server = {}
               /\ \E m \in r.given.repositories[j].mcp_server : m.status = "error"

LoadResults == {r \in ret : r.caller = "layout" /\ r.op = "load"}

\* the default repository the claim names for a list and a last opened id
ClaimedDefault(repos, last) ==
    LET named == {i \in DOMAIN repos : {repos[i].id} = last}
    IN IF repos = <<>> THEN {}
       ELSE IF named # {} THEN {repos[i] : i \in named}
       ELSE {repos[1]}

\* C30: loadInitialConfig asks for the status of every repository of the loaded
\* config exactly once, in the order of the list, and returns as default repository
\* the one named by last_opened_repository if the list has it, the first of the
\* list if not or if none is named, and none when the list is empty.
C30_DefaultRepository ==
    \A r \in LoadResults :
        \A loaded \in r.given.loaded :
            /\ [k \in DOMAIN Queries(r) |-> Queries(r)[k].args[1]] =
                   [k \in DOMAIN loaded.repositories |-> loaded.repositories[k].id]
            /\ \E out \in r.result :
                   /\ r.result = {out}
                   /\ out.defaultRepository =
                          ClaimedDefault(out.repositories, loaded.last_opened_repository)
                   /\ out.repositories = appConfig.repositories

\* the config names its second repository as last opened and loadInitialConfig has
\* returned that one
C30_Witness ==
    \E r \in LoadResults : \E out \in r.result :
        /\ Len(out.repositories) = 2
        /\ out.defaultRepository = {out.repositories[2]}
        /\ Len(Queries(r)) = 2

\* the config names a repository that is not in its list and loadInitialConfig has
\* returned the first one
C30_UnlistedWitness ==
    \E r \in LoadResults : \E out \in r.result : \E loaded \in r.given.loaded :
        /\ Len(out.repositories) = 1
        /\ loaded.last_opened_repository # {}
        /\ loaded.last_opened_repository # {out.repositories[1].id}
        /\ out.defaultRepository = {out.repositories[1]}

\* ------------------------------------------------------------------
AddResults == {r \in ret : r.caller = "layout" /\ r.op = "add"}

Incomplete(r) == r.given.selectedPath = {} \/ ~r.given.agentLibraryExists

\* C31: handleAddRepository changes nothing when it does not complete. A cancelled
\* dialog makes it return {repositories: [], newRepository: null}, a path without
\* .agent_library makes it throw; in both cases add_repository_config is not
\* invoked, the config (and so every port in it) stays as it was, and so do the
\* selected repository and what the toolbar shows of it.
C31_IncompleteAddChangesNothing ==
    [][\A r \in AddResults' :
          /\ r.given.selectedPath = {} =>
                 r.result = {[repositories |-> <<>>, newRepository |-> {}]}
          /\ (r.given.selectedPath # {} /\ ~r.given.agentLibraryExists) => r.result = {}
          /\ Incomplete(r) =>
                 /\ \A k \in DOMAIN r.invokes : r.invokes[k].cmd # "add_repository_config"
                 /\ appConfig' = appConfig
                 /\ selectedRepository' = selectedRepository
                 /\ toolbar' = toolbar]_vars

\* a repository is registered and selected, and a directory without .agent_library
\* has been chosen for another one
C31_Witness ==
    /\ selectedRepository # {}
    /\ \E r \in AddResults :
           /\ r.given.selectedPath # {} /\ ~r.given.agentLibraryExists
           /\ r.result = {}
           /\ find(appConfig.repositories, CHOOSE id \in r.id : TRUE) = {}

\* a repository is registered and selected, and the dialog has been cancelled
C31_CancelWitness ==
    /\ selectedRepository # {}
    /\ \E r \in AddResults : r.given.selectedPath = {} /\ r.result # {}

\* ------------------------------------------------------------------
StoreResults(op) == {r \in ret : r.caller = "layout" /\ r.op = op}

Ids(repos) == {repos[i].id : i \in DOMAIN repos}

\* the entries of ids other than id, in the order of the list
Others(repos, id) ==
    LET other(r) == r.id # id
    IN SelectSeq(repos, other)

\* C32: the repository list of the store follows the backend. A rejected
\* add_repository_config leaves the list as it was and the error is rethrown (by
\* addRepository and by handleAddRepository, which calls it); an accepted one puts
\* the repository into the list. remove_repository_config rejecting or resolving to
\* false leaves the list as it was; resolving to true takes the repository of that
\* id out of the list and leaves every other entry, and their order, alone.
C32_StoreFollowsBackend ==
    [][/\ \A r \in StoreResults("store-add")' :
              LET id == CHOOSE id \in r.id : TRUE
              IN IF r.given.throws
                 THEN r.result = "rejected" /\ appConfig' = appConfig
                 ELSE /\ find(appConfig'.repositories, id) = {createRepositoryConfig(id)}
                      /\ Others(appConfig'.repositories, id) = Others(appConfig.repositories, id)
       /\ \A r \in AddResults' :
              (~Incomplete(r) /\ r.given.rejected) => r.result = {} /\ appConfig' = appConfig
       /\ \A r \in StoreResults("store-remove")' :
              LET id == CHOOSE id \in r.id : TRUE
              IN IF r.given.removed = {TRUE}
                 THEN /\ id \notin Ids(appConfig'.repositories)
                      /\ Others(appConfig'.repositories, id) = Others(appConfig.repositories, id)
                      /\ Len(appConfig'.repositories) = Len(appConfig.repositories) - 1
                 ELSE appConfig' = appConfig]_vars

\* two repositories were registered and the backend has removed one of them
C32_Witness ==
    \E r \in StoreResults("store-remove") :
        /\ r.given.removed = {TRUE}
        /\ r.id \cap Ids(appConfig.repositories) = {}
        /\ Len(appConfig.repositories) = 1

\* a repository is registered; the backend has refused to remove it
C32_RefusedWitness ==
    \E r \in StoreResults("store-remove") :
        /\ r.given.removed = {FALSE}
        /\ r.id \subseteq Ids(appConfig.repositories)

\* the backend has rejected the registration of a repository
C32_RejectedWitness ==
    \E r \in StoreResults("store-add") : r.given.throws /\ r.result = "rejected"

\* ------------------------------------------------------------------
\* the call got as far as registering the repository
Registers(r) == ~Incomplete(r) /\ ~r.given.rejected

\* the ports configured for the repositories of a config
PortsIn(config) ==
    {m.port : m \in UNION {config.repositories[i].mcp_server : i \in DOMAIN config.repositories}}

\* C33: when handleAddRepository registers a repository, the store holds it
\* afterwards with status 'stopped' and with the smallest port from 9500 on that
\* no repository of the config had as its configured port before the call.
C33_SmallestUnusedPort ==
    [][\A r \in AddResults' :
          Registers(r) =>
              \E new \in find(appConfig'.repositories, CHOOSE id \in r.id : TRUE) :
                  \E m \in new.mcp_server :
                      /\ new.mcp_server = {m}
                      /\ m.status = "stopped"
                      /\ m.port >= 9500
                      /\ m.port \notin PortsIn(appConfig)
                      /\ \A q \in 9500..(m.port - 1) : q \in PortsIn(appConfig)]_vars

\* a repository has been registered while another one held port 9500: it got 9501
C33_Witness ==
    \E r \in AddResults :
        /\ Registers(r) /\ r.result # {}
        /\ \E new \in find(appConfig.repositories, CHOOSE id \in r.id : TRUE) :
               \E m \in new.mcp_server : m.port = 9501 /\ m.status = "stopped"
        /\ 9500 \in PortsIn(appConfig)

\* a repository has been registered next to one without a configured port
C33_PortlessWitness ==
    \E r \in AddResults :
        /\ Registers(r) /\ ~r.given.loads
        /\ \E i \in DOMAIN appConfig.repositories : appConfig.repositories[i].mcp_server = {}

\* ------------------------------------------------------------------
\* the port configured for a repository ({} if none)
PortOf(config, id) == {m.port : m \in UNION {r.mcp_server : r \in find(config.repositories, id)}}

StatusOf(config, id) ==
    {m.status : m \in UNION {r.mcp_server : r \in find(config.repositories, id)}}

\* the repositories whose entry of the config changes in this step
Rewritten == {id \in Repos : find(appConfig'.repositories, id) # find(appConfig.repositories, id)}

\* stopMcpServer takes the answer of a stop command that succeeded
StopReturns ==
    /\ Awaiting("stopMcpServer") # {} /\ awaits' = {}
    /\ \E r \in Returns("stop") : r.result.ok

\* a synchronisation of repository id that found no active server ends
SyncFindsNone(id) ==
    \/ \E r \in StoreResults("select")' : r.id = {id} /\ r.given.reply = StatusNull
    \/ \E r \in StoreResults("periodic")' :
          /\ r.given.replyOf[id] = StatusNull
          /\ \E repo \in find(r.given.repositories, id) : IsRunning(repo)

\* C34: a repository keeps its configured port when its server is not running.
\* Whatever a stop from the toolbar writes to the config is status 'stopped' with
\* the port the repository had in the config before, and a synchronisation that
\* finds no active server leaves the repository as 'stopped' on the port it had;
\* neither changes the port of any repository or leaves one without a port.
C34_StoppedKeepsPort ==
    [][/\ StopReturns =>
              \A id \in Repos :
                  /\ PortOf(appConfig', id) = PortOf(appConfig, id)
                  /\ id \in Rewritten => StatusOf(appConfig', id) = {"stopped"}
       /\ \A id \in Repos :
              SyncFindsNone(id) =>
                  /\ \A other \in Repos : PortOf(appConfig', other) = PortOf(appConfig, other)
                  /\ StatusOf(appConfig', id) = {"stopped"}]_vars

\* ------------------------------------------------------------------
\* startMcpServer takes the answer of a start command for id that succeeded
StartReturns(id) ==
    /\ Awaiting("startMcpServer") # {} /\ awaits' = {}
    /\ \E r \in Returns("start") : r.result.ok /\ r.id = {id}

\* C35: when the start command for a repository completes, 'running' and the port
\* are recorded for that repository and for no other, also when another repository
\* was selected while the command was in flight: no other entry of the config is
\* rewritten, the selected repository is not replaced by a running copy of another
\* repository, and the toolbar shows 'running' only for the repository started.
C35_RunningRecordedForStarted ==
    [][\A id \in Repos :
          StartReturns(id) =>
              /\ Rewritten \subseteq {id}
              /\ \A repo \in selectedRepository' :
                     repo.id # id => selectedRepository' = selectedRepository
              /\ \A repo \in toolbar'.currentSelectedRepository :
                     repo.id # id => toolbar'.serverStatus # "running"]_vars

\* ------------------------------------------------------------------
\* the reload calls this step issues
Issued == BagCardinality(reloads') - BagCardinality(reloads)

\* the listener handles an event in this step
Arrives == \E event \in FileChangeEvents : ret' = Logged(event)

\* C37: each file-change event causes at most one call of reloadAgentLibrary, and
\* only if automatic reloading is enabled when the event arrives: reload calls are
\* issued only by the step that handles an event, one at most, with the switch on.
\* Switching automatic reloading off and on issues none.
C37_ReloadOnlyOnArrival ==
    [][Issued > 0 => Arrives /\ autoReloadEnabled /\ Issued = 1]_vars

\* ------------------------------------------------------------------
\* the handlers this step runs for an event
Handled == BagCardinality(subscribers') - BagCardinality(subscribers)

\* destroyEventListener runs with a listener kept in the static field
Destroys == eventListener # {} /\ eventListener' = {}

\* C36: at most one 'file-change' listener is registered at any time, however
\* initializeEventListener is called, overlapping calls included; so an event the
\* backend emits is handled once, and destroyEventListener leaves no listener
\* registered.
C36_SingleListener ==
    [][/\ Cardinality(listeners') <= 1
       /\ Arrives => Handled = 1
       /\ Destroys => listeners' = {}]_vars

\* ------------------------------------------------------------------
\* the save of a whole-config write takes effect in this step
Saves == \E a \in Awaiting("updateLastOpenedRepository") : a \notin awaits' /\ appConfig' = a.config

\* C38: no configuration update is lost when a whole-config read-modify-write
\* interleaves with updateMcpServerStatus: the save of updateLastOpenedRepository
\* changes last_opened_repository and leaves the mcp_server of every repository as
\* the config held it just before, so that a status persisted in between survives.
C38_NoLostUpdate ==
    [][Saves => appConfig'.repositories = appConfig.repositories]_vars

\* ------------------------------------------------------------------
\* C39: in the persisted config no two repositories have the same MCP port,
\* whatever repositories were added, started, stopped and synchronised, those
\* without a configured port included.
C39_DistinctConfiguredPorts ==
    \A i, j \in DOMAIN appConfig.repositories :
        i # j => PortOf(appConfig, appConfig.repositories[i].id)
                     \cap PortOf(appConfig, appConfig.repositories[j].id) = {}

\* ------------------------------------------------------------ convergence
\* the backend answers that the repository has a running server
ReportsRunning(reply) == Reported(reply) /\ reply.status = {"running"}

\* the backend answers that the repository has no running server, or does not answer
ReportsNotRunning(reply) ==
    \/ reply.kind \in {"null", "throws"}
    \/ reply.kind = "object" /\ reply.status = {"stopped"}

\* every update a synchronisation attempts for this answer is rejected
AllRejected(reply, fails) == IF reply.kind = "throws" THEN fails[1] ELSE fails[1] /\ fails[2]

PeriodicReturns(r) == ret = {} /\ r \in ret' /\ r.caller = "layout" /\ r.op = "periodic"

\* the repositories the store records as running
RecordedRunning == {id \in Repos : "running" \in StatusOf(appConfig, id)}

Registered(id) == find(appConfig.repositories, id) # {}

\* C40 as stated: a repository recorded as running whose backend server is not
\* running, or whose status query fails, is recorded as stopped when the next
\* periodic synchronisation has completed; a repository whose backend server is
\* running is recorded as running once its status has been synchronised.
C40_Converges ==
    [][/\ \A r \in ret' : PeriodicReturns(r) =>
              \A id \in RecordedRunning :
                  ReportsNotRunning(r.given.replyOf[id]) => StatusOf(appConfig', id) = {"stopped"}
       /\ \A r \in ret' : SyncReturns(r) =>
              \A id \in r.id :
                  Registered(id) /\ ReportsRunning(r.given.reply) =>
                      StatusOf(appConfig', id) = {"running"}]_vars

\* C40, amended: the periodic synchronisation records such a repository as stopped
\* unless every update it attempts is rejected, and then the entry stays as it was; a
\* synchronisation that is told of a running server records running with the
\* reported port when its update is accepted, stopped when only the update of its
\* error path is accepted, and leaves the entry alone when both are rejected.
C40_ConvergesUnlessRejected ==
    [][/\ \A r \in ret' : PeriodicReturns(r) =>
              \A id \in RecordedRunning :
                  ReportsNotRunning(r.given.replyOf[id]) =>
                      IF AllRejected(r.given.replyOf[id], r.given.fails)
                      THEN find(appConfig'.repositories, id) = find(appConfig.repositories, id)
                      ELSE StatusOf(appConfig', id) = {"stopped"}
       /\ \A r \in ret' : SyncReturns(r) =>
              \A id \in r.id :
                  Registered(id) /\ ReportsRunning(r.given.reply) =>
                      IF ~r.given.fails[1]
                      THEN /\ StatusOf(appConfig', id) = {"running"}
                           /\ PortOf(appConfig', id) = r.given.reply.port
                      ELSE IF ~r.given.fails[2]
                      THEN StatusOf(appConfig', id) = {"stopped"}
                      ELSE find(appConfig'.repositories, id) = find(appConfig.repositories, id)]_vars

\* a periodic synchronisation has completed for a repository that was recorded as
\* running and whose server the backend does not know: it is recorded as stopped
C40_Witness ==
    \E r \in PeriodicResults : \E id \in StoredRunning(r.given.repositories) :
        /\ r.given.replyOf[id] = StatusNull
        /\ r.given.fails = <<FALSE, FALSE>>
        /\ StatusOf(appConfig, id) = {"stopped"}

\* a synchronisation has recorded a repository as running that was not
C40_RunningWitness ==
    \E r \in ret :
        /\ r.caller = "layout" /\ r.op = "sync"
        /\ ReportsRunning(r.given.reply)
        /\ ~r.given.fails[1]
        /\ \E id \in r.id : StatusOf(appConfig, id) = {"running"}

====
